---- MODULE Spec2Model ----
(***************************************************************************)
(* Model of the running-coach RAG pipeline: the configuration cache        *)
(* (fetchDeployedPrompt.tsx, prompt.tsx), the trace/span model             *)
(* (observability.ts) and the orchestrator (response.tsx).                 *)
(*                                                                         *)
(* JavaScript runs one continuation at a time, so every action below is    *)
(* the code that runs between two suspension points (await).               *)
(* Text is modelled as a sequence of tokens: a token is one punctuation    *)
(* character ("{", "}", " ") or one word.                                  *)
(***************************************************************************)
EXTENDS Integers, Sequences, FiniteSets, TLC

\* ------------------------------------------------------------------------
\* Bounds of the model
\* ------------------------------------------------------------------------
MaxPieces == 5
MaxClock == 3
MaxMatches == 2
MaxSpans == 3
MaxSubmits == 2
MaxCalls == 3
MaxText == 5
MaxSize == 4
MaxOverlap == 4
MaxChunks == 9
ReadChunkSize == 2
MaxLen == 3
MaxDim == 4
MaxRecords == 2
DefaultDimension == 2
MaxValue == 6
SignificandBits == 3

\* ------------------------------------------------------------------------
\* Text helpers
\* ------------------------------------------------------------------------
EmptyStr == <<>>

IsWhitespace(tok) == tok = " "

RECURSIVE TrimStart(_)
TrimStart(s) ==
  IF s # <<>> /\ IsWhitespace(Head(s)) THEN TrimStart(Tail(s)) ELSE s

RECURSIVE TrimEnd(_)
TrimEnd(s) ==
  IF s # <<>> /\ IsWhitespace(s[Len(s)])
    THEN TrimEnd(SubSeq(s, 1, Len(s) - 1))
    ELSE s

\* String.prototype.trim
Trim(s) == TrimEnd(TrimStart(s))

MathMax(a, b) == IF a >= b THEN a ELSE b

MathMin(a, b) == IF a <= b THEN a ELSE b

\* String.prototype.slice(a, b): indices from 0, end exclusive, a negative
\* index counts from the end, out-of-range indices are clamped
slice(s, a, b) ==
  LET from == IF a < 0 THEN MathMax(Len(s) + a, 0) ELSE MathMin(a, Len(s))
      to == IF b < 0 THEN MathMax(Len(s) + b, 0) ELSE MathMin(b, Len(s))
  IN IF from < to THEN SubSeq(s, from + 1, to) ELSE <<>>

\* ------------------------------------------------------------------------
\* injectVariables (fetchDeployedPrompt.tsx)
\* ------------------------------------------------------------------------
\* Property names every object literal inherits from Object.prototype, with
\* the text String(value) gives for them.  The `in` operator of line 192
\* answers true for these names as well as for the object's own keys.
ObjectPrototypeText ==
  [constructor |-> <<"function Object() { [native code] }">>,
   toString    |-> <<"function toString() { [native code] }">>]

ObjectPrototypeKeys == DOMAIN ObjectPrototypeText

\* trimmedName in variables
HasProperty(variables, name) ==
  /\ Len(name) = 1
  /\ (name[1] \in DOMAIN variables \/ name[1] \in ObjectPrototypeKeys)

\* String(variables[trimmedName])
PropertyText(variables, name) ==
  IF name[1] \in DOMAIN variables
    THEN variables[name[1]]
    ELSE ObjectPrototypeText[name[1]]

\* Length of the longest run of tokens other than "}" that starts at i:
\* what the greedy [^}]+ consumes.
RECURSIVE NameRun(_, _)
NameRun(t, i) ==
  IF i > Len(t) \/ t[i] = "}" THEN 0 ELSE 1 + NameRun(t, i + 1)

\* Does /\{\{([^}]+)\}\}/ match at position i of t ?
MatchAt(t, i) ==
  /\ i + 1 <= Len(t)
  /\ t[i] = "{"
  /\ t[i + 1] = "{"
  /\ NameRun(t, i + 2) >= 1
  /\ i + 2 + NameRun(t, i + 2) + 1 <= Len(t)
  /\ t[i + 2 + NameRun(t, i + 2)] = "}"
  /\ t[i + 2 + NameRun(t, i + 2) + 1] = "}"

\* the captured group of the match at i
MatchName(t, i) == SubSeq(t, i + 2, i + 1 + NameRun(t, i + 2))

\* number of tokens of the whole match at i
MatchLen(t, i) == NameRun(t, i + 2) + 4

\* the replacer callback of template.replace
Replacer(variables, match, variableName) ==
  IF HasProperty(variables, Trim(variableName))
    THEN PropertyText(variables, Trim(variableName))
    ELSE match

\* template.replace(/.../g, replacer): leftmost matches, left to right,
\* scanning resumes after each match, replacements are not rescanned.
RECURSIVE ReplaceFrom(_, _, _)
ReplaceFrom(t, i, variables) ==
  IF i > Len(t) THEN <<>>
  ELSE IF MatchAt(t, i)
    THEN Replacer(variables, SubSeq(t, i, i + MatchLen(t, i) - 1), MatchName(t, i))
           \o ReplaceFrom(t, i + MatchLen(t, i), variables)
    ELSE <<t[i]>> \o ReplaceFrom(t, i + 1, variables)

injectVariables(template, variables) == ReplaceFrom(template, 1, variables)

\* DEFAULT_QUERY_VARIABLES
DEFAULT_QUERY_VARIABLES ==
  [RUN_BLOCK     |-> <<"1 hour Recovery run">>,
   WHAT_TO_COVER |-> <<"warm-up; hydration; cadence">>,
   CONTEXT       |-> <<"half-marathon in 6 weeks">>]

\* ------------------------------------------------------------------------
\* The deployment payload and template extraction (fetchDeployedPrompt.tsx)
\* ------------------------------------------------------------------------
\* A content block {modality, text?, value?}; an absent field is the empty
\* text (both are falsy for the || chain of extractSystemMessage).
Block(modality, value, text) ==
  [modality |-> modality, value |-> value, text |-> text]

Message(role, content) == [role |-> role, content |-> content]

UserTemplate == <<"Plan", ":", " ", "{", "{", " ", "RUN_BLOCK", "}", "}">>

\* Payloads the configuration service may answer with (DeployedPrompt).
PayloadA ==
  [id |-> "dep-A", providerName |-> "openai", model |-> "gpt-4.1-mini",
   messages |-> << Message("system", << Block("text", <<"coach-A">>, <<>>) >>),
                   Message("user", << Block("text", UserTemplate, <<>>) >>) >>]

PayloadB ==
  [id |-> "dep-B", providerName |-> "openai", model |-> "gpt-5-mini",
   messages |-> << Message("user", << Block("text", <<>>, UserTemplate) >>),
                   Message("system", << Block("image", <<"img">>, <<>>),
                                        Block("text", <<>>, <<"coach-B">>) >>),
                   Message("system", << Block("text", <<"coach-B2">>, <<>>) >>) >>]

PayloadNoSystem ==
  [id |-> "dep-C", providerName |-> "openai", model |-> "gpt-4.1-mini",
   messages |-> << Message("user", << Block("text", UserTemplate, <<>>) >>) >>]

PayloadNoText ==
  [id |-> "dep-D", providerName |-> "openai", model |-> "gpt-4.1-mini",
   messages |-> << Message("system", << Block("image", <<"img">>, <<>>) >>),
                   Message("system", << Block("text", <<"coach-D2">>, <<>>) >>),
                   Message("user", << Block("text", UserTemplate, <<>>) >>) >>]

Payloads == {PayloadA, PayloadB, PayloadNoSystem, PayloadNoText}

\* messages.find(m => m.role === role), then content.find(c => c.modality
\* === 'text'), then value || text || ''
ExtractMessage(deployedPrompt, role) ==
  LET msgs == SelectSeq(deployedPrompt.messages, LAMBDA m : m.role = role)
  IN IF msgs = <<>> THEN EmptyStr
     ELSE LET texts == SelectSeq(msgs[1].content, LAMBDA c : c.modality = "text")
          IN IF texts = <<>> THEN EmptyStr
             ELSE IF texts[1].value # <<>> THEN texts[1].value
             ELSE IF texts[1].text # <<>> THEN texts[1].text
             ELSE EmptyStr

extractSystemMessage(deployedPrompt) == ExtractMessage(deployedPrompt, "system")

extractUserMessage(deployedPrompt) == ExtractMessage(deployedPrompt, "user")

\* a module-level cache variable: null, or a value
Null(dflt) == [isNull |-> TRUE, value |-> dflt]

Some(v) == [isNull |-> FALSE, value |-> v]

\* ------------------------------------------------------------------------
\* Resolution of matches to snippets (retrieve.tsx, response.tsx).
\* A file name is a sequence of tokens whose last one is the extension; the
\* text of a file is a sequence of tokens, each counting for one character.
\* ------------------------------------------------------------------------
\* a ?? b ?? c
Coalesce(a, b, c) == IF ~a.isNull THEN a ELSE IF ~b.isNull THEN b ELSE c

NoName == Null(<<>>)

NoNumber == Null(0)

\* match.metadata with the six fields parseMatchMetadata reads, all absent
NoMetadata ==
  [file |-> NoName, source |-> NoName, filename |-> NoName,
   chunk |-> NoNumber, chunkIndex |-> NoNumber, chunk_num |-> NoNumber]

\* Number(idMatch[2])
NumberOf == [d \in {"0", "1", "2", "3", "9"} |->
               CASE d = "0" -> 0 [] d = "1" -> 1 [] d = "2" -> 2
                 [] d = "3" -> 3 [] OTHER -> 9]

\* idStr.match(/(.+)-chunk-(\d+)$/): the id ends with -chunk- and digits,
\* after a base of one character at least
IdMatches(id) ==
  /\ Len(id) >= 3
  /\ id[Len(id)] \in DOMAIN NumberOf
  /\ id[Len(id) - 1] = "-chunk-"

\* path.basename(f, path.extname(f)): f without its last token when that
\* token is an extension
Basename(f) ==
  IF f # <<>> /\ f[Len(f)] \in {".mdx", ".pdf", ".md"}
    THEN SubSeq(f, 1, Len(f) - 1) ELSE f

\* f.startsWith(base)
startsWith(f, base) == Len(base) <= Len(f) /\ SubSeq(f, 1, Len(base)) = base

\* files.find(...): the first name of the listing that fits base, if any
RECURSIVE FindFile(_, _, _)
FindFile(names, i, base) ==
  IF i > Len(names) THEN NoName
  ELSE IF Basename(names[i]) = base \/ startsWith(names[i], base)
    THEN Some(names[i])
    ELSE FindFile(names, i + 1, base)

\* !fileName: undefined or the empty name
NoFileName(fileName) == fileName.isNull \/ fileName.value = <<>>

\* parseMatchMetadata(match), lines 238-269; fs is the data folder: whether
\* it can be listed, the names readdir gives, the text of the readable files
parseMatchMetadata(fs, match) ==
  LET md == match.metadata
      fileName0 == IF match.hasMetadata
                     THEN Coalesce(md.file, md.source, md.filename) ELSE NoName
      chunkNum0 == IF match.hasMetadata
                     THEN Coalesce(md.chunk, md.chunkIndex, md.chunk_num) ELSE NoNumber
  IN IF (NoFileName(fileName0) \/ chunkNum0.isNull) /\ match.id # <<>>
          /\ IdMatches(match.id)
       THEN LET base == SubSeq(match.id, 1, Len(match.id) - 2)
                idx == NumberOf[match.id[Len(match.id)]]
                found == IF fs.listable THEN FindFile(fs.names, 1, base) ELSE NoName
                fileName1 == IF ~NoFileName(found) THEN found ELSE fileName0
            IN [fileName |-> IF NoFileName(fileName1)
                               THEN Some(Append(base, ".mdx")) ELSE fileName1,
                chunkNum |-> IF chunkNum0.isNull THEN Some(idx) ELSE chunkNum0]
       ELSE [fileName |-> fileName0, chunkNum |-> chunkNum0]

\* t.replace(/\s+/g, ' ')
RECURSIVE CollapseWhitespace(_)
CollapseWhitespace(t) ==
  IF t = <<>> THEN <<>>
  ELSE IF IsWhitespace(t[1])
    THEN <<" ">> \o CollapseWhitespace(TrimStart(t))
    ELSE <<t[1]>> \o CollapseWhitespace(Tail(t))

\* position of the first token tok of t at or after i, 0 when there is none
RECURSIVE IndexOf(_, _, _)
IndexOf(t, tok, i) ==
  IF i > Len(t) THEN 0 ELSE IF t[i] = tok THEN i ELSE IndexOf(t, tok, i + 1)

\* raw.replace(/^---[\s\S]*?---/, '')
StripFrontMatter(raw) ==
  IF raw # <<>> /\ raw[1] = "---" /\ IndexOf(raw, "---", 2) # 0
    THEN SubSeq(raw, IndexOf(raw, "---", 2) + 1, Len(raw))
    ELSE raw

\* t.replace(/<!--([\s\S]*?)-->/g, '')
RECURSIVE StripComments(_)
StripComments(t) ==
  IF t = <<>> THEN <<>>
  ELSE IF t[1] = "<!--" /\ IndexOf(t, "-->", 2) # 0
    THEN StripComments(SubSeq(t, IndexOf(t, "-->", 2) + 1, Len(t)))
    ELSE <<t[1]>> \o StripComments(Tail(t))

\* doc of readChunkContent, lines 215-228, for a file that can be read:
\* the text of a .pdf, else the body or, the body being empty, the file
\* name without .mdx
DocumentText(fs, fileName) ==
  IF fileName # <<>> /\ fileName[Len(fileName)] = ".pdf"
    THEN Trim(CollapseWhitespace(fs.text[fileName]))
    ELSE LET body == Trim(StripComments(StripFrontMatter(fs.text[fileName])))
         IN IF Len(body) > 0 THEN CollapseWhitespace(body)
            ELSE SelectSeq(fileName, LAMBDA tok : tok # ".mdx")

\* readChunkContent(fileName, chunkNum, chunkSize), lines 211-235: the
\* catch block answers '' when the file cannot be read
readChunkContent(fs, fileName, chunkNum, chunkSize) ==
  IF fileName \notin DOMAIN fs.text THEN EmptyStr
  ELSE slice(DocumentText(fs, fileName), chunkNum * chunkSize,
             chunkNum * chunkSize + chunkSize)

\* response.tsx lines 53-59: the snippet match m gives, if it gives one
SnippetOf(fs, m) ==
  LET parsed == parseMatchMetadata(fs, m)
      content == IF ~NoFileName(parsed.fileName) /\ ~parsed.chunkNum.isNull
                   THEN readChunkContent(fs, parsed.fileName.value,
                                         parsed.chunkNum.value, ReadChunkSize)
                   ELSE EmptyStr
  IN IF content # EmptyStr /\ Trim(content) # EmptyStr THEN <<content>> ELSE <<>>

RECURSIVE ResolveFrom_break(_, _, _)
ResolveFrom_break(fs, matches, i) ==
  IF i > Len(matches) \/ SnippetOf(fs, matches[i]) = <<>> THEN <<>>
  ELSE SnippetOf(fs, matches[i]) \o ResolveFrom_break(fs, matches, i + 1)

\* response.tsx lines 51-60: the loop over the matches, from match i on
RECURSIVE ResolveFrom(_, _, _)
ResolveFrom(fs, matches, i) ==
  IF i > Len(matches) THEN <<>>
  ELSE SnippetOf(fs, matches[i]) \o ResolveFrom(fs, matches, i + 1)

\* the folder ./data: locked.mdx is listed but cannot be read
DataFolder ==
  [listable |-> TRUE,
   names |-> << <<"book", ".pdf">>, <<"guide", ".mdx">>, <<"locked", ".mdx">> >>,
   text |-> [f \in { <<"guide", ".mdx">>, <<"book", ".pdf">> } |->
               IF f = <<"guide", ".mdx">>
                 THEN <<"---", "title", "---", " ", "Warm", " ", "up", " ", " ",
                        "first", ".", "<!--", "todo", "-->", " ">>
                 ELSE <<" ", "Run", " ", " ", "easy", ".">>]]

\* matches the vector store may answer with
MatchWithMetadata ==
  [id |-> <<"guide", "-chunk-", "0">>, hasMetadata |-> TRUE,
   metadata |-> [NoMetadata EXCEPT !.source = Some(<<"guide", ".mdx">>),
                                   !.chunkIndex = Some(0)]]

MatchWithIdOnly ==
  [id |-> <<"guide", "-chunk-", "1">>, hasMetadata |-> FALSE,
   metadata |-> NoMetadata]

MatchOfMissingFile ==
  [id |-> <<"gone", "-chunk-", "0">>, hasMetadata |-> TRUE,
   metadata |-> [NoMetadata EXCEPT !.file = Some(<<"gone", ".mdx">>),
                                   !.chunk = Some(0)]]

MatchWithoutReference ==
  [id |-> <<"vec", "-", "7">>, hasMetadata |-> FALSE, metadata |-> NoMetadata]

Matches ==
  {MatchWithMetadata, MatchWithIdOnly, MatchOfMissingFile, MatchWithoutReference}

\* answers of the vector store: up to n matches, each record at most once
RECURSIVE MatchLists(_)
MatchLists(n) ==
  IF n = 0 THEN { <<>> }
  ELSE MatchLists(n - 1)
         \cup { Append(p[1], p[2]) :
                  p \in { q \in MatchLists(n - 1) \X Matches :
                            \A i \in DOMAIN q[1] : q[1][i] # q[2] } }

\* ------------------------------------------------------------------------
\* State
\* ------------------------------------------------------------------------
Runs == {"r1", "r2"}

VARIABLES
  env,                   \* process.env: which credentials are set
  proc,                  \* "start", "loaded" or "crashed": module loading
  now,                   \* Date.now()
  cachedDeployedPrompt,  \* fetchDeployedPrompt.tsx, line 39
  cachedSystemMessage,   \* prompt.tsx, line 15
  pc,                    \* per invocation of main: where it is suspended
  trace,                 \* per invocation: its Trace object
  loc,                   \* per invocation: local variables of the stages
  log,                   \* per invocation: requests issued and outcomes (history)
  sub,                   \* per invocation: what submitTrace did (history)
  cfg,                   \* sequential use of the configuration accessors
  inj,                   \* an application of injectVariables
  ch,                    \* a call of splitIntoChunks: its arguments and locals
  pj,                    \* calls of projectToDim: the arrays and the caller's references
  store                  \* the vector store: what ingestion and retrieval hand to it

vars == <<env, proc, now, cachedDeployedPrompt, cachedSystemMessage,
          pc, trace, loc, log, sub, cfg, inj, ch, pj, store>>

NoRef == <<"none", 0>>

\* the harness variables while the function they follow is not in use:
\* injectVariables, splitIntoChunks, projectToDim, the vector store
Off ==
  [inj |-> [template |-> <<>>, variables |-> <<>>, out |-> <<>>, done |-> FALSE],
   ch |-> [pc |-> "off", text |-> <<>>, chunkSize |-> 0, overlap |-> 0,
           sentences |-> <<>>, k |-> 0, current |-> <<>>, chunks |-> <<>>,
           i |-> 0],
   pj |-> [pc |-> "off", v |-> <<>>, n |-> 0, orig |-> <<>>, fresh |-> TRUE,
           out |-> <<>>, first |-> <<>>, second |-> <<>>, stored |-> <<>>],
   store |-> [pc |-> "off", names |-> <<>>, file |-> <<>>, count |-> 0,
              dimension |-> Null(0), records |-> <<>>, query |-> Null(<<>>),
              matches |-> <<>>, recovered |-> <<>>]]

\* ------------------------------------------------------------------------
\* Trace / span model (observability.ts)
\* ------------------------------------------------------------------------
createTrace(r, name) ==
  [name |-> name, status |-> "success", startedAt |-> now, endedAt |-> 0,
   referenceId |-> <<"trace", r>>, sessionId |-> <<"session", r>>,
   attributes |-> <<"app_name", "runtime", "language", "nodeEnv">>,
   tags |-> <<"running-coach", "rag", "pipeline">>,
   spans |-> <<>>]

\* span.tokens and a tokenUsage object, when absent
NoTokens == Null([input |-> 0, output |-> 0, total |-> 0])

NoUsage == Null([promptTokens |-> 0, completionTokens |-> 0, totalTokens |-> 0])

\* the span literal a stage passes to addSpan; absent fields are NoRef or
\* null.  type, provider, model, inputModel (content.input.model) and
\* output (content.output, of which the tokenUsage member is kept) are the
\* members of span.content; cost and tokens are members of the span.  The
\* stages of the pipeline pass an output object and, but for the two that
\* compute one, cost: 0.
SpanInput(name, status, startedAt, endedAt, type, referenceId, parentReferenceId) ==
  [name |-> name, status |-> status, startedAt |-> startedAt,
   endedAt |-> endedAt, type |-> type, referenceId |-> referenceId,
   parentReferenceId |-> parentReferenceId, sessionId |-> NoRef,
   traceReferenceId |-> NoRef,
   provider |-> Null(""), model |-> Null(""), inputModel |-> Null(""),
   output |-> Some([tokenUsage |-> NoUsage]),
   cost |-> Some(0), tokens |-> NoTokens]

NewSpan_traceSession(tr, span) ==
  [span EXCEPT !.traceReferenceId = tr.referenceId,
               !.sessionId = tr.sessionId]

\* newSpan of addSpan: the input (...span) with the two fields taken from
\* the trace
NewSpan(tr, span) ==
  [span EXCEPT !.traceReferenceId = tr.referenceId,
               !.sessionId = IF span.sessionId # NoRef THEN span.sessionId
                             ELSE tr.sessionId]

addSpan_unshift(tr, span) ==
  [tr EXCEPT !.spans = <<NewSpan(tr, span)>> \o @]

\* addSpan(trace, span): trace.spans.push(newSpan); return trace
addSpan(tr, span) == [tr EXCEPT !.spans = Append(@, NewSpan(tr, span))]

\* if (trace) addSpan(trace, ...)
addSpanIf(traced, tr, span) == IF traced THEN addSpan(tr, span) ELSE tr

\* mapStatus of submitTrace
mapStatus(st) == IF st = "success" THEN "success" ELSE "failure"

NormalizeEnd_nonStrict(startedAt, endedAt) ==
  IF endedAt # 0 /\ endedAt >= startedAt THEN endedAt ELSE startedAt + 1

\* endedAt && endedAt > startedAt ? endedAt : startedAt + 1
NormalizeEnd(startedAt, endedAt) ==
  IF endedAt # 0 /\ endedAt > startedAt THEN endedAt ELSE startedAt + 1

AllSpansError(tr) == \A i \in DOMAIN tr.spans : tr.spans[i].status = "error"

\* trace.spans.some(s => s.status === 'error')
AnySpanError(tr) == \E i \in DOMAIN tr.spans : tr.spans[i].status = "error"

Finalize_recompute(tr) ==
  [tr EXCEPT !.endedAt = now,
             !.status = IF AnySpanError(tr) THEN "error" ELSE "success"]

\* the finalization of submitTrace, lines 104-109
Finalize(tr) ==
  [tr EXCEPT !.endedAt = now,
             !.status = IF AnySpanError(tr) THEN "error" ELSE @]

\* tracePayload, lines 116-126 (tr is the finalized trace)
TracePayload(tr) ==
  [startedAt |-> tr.startedAt,
   endedAt |-> NormalizeEnd(tr.startedAt, tr.endedAt),
   name |-> tr.name, status |-> mapStatus(tr.status),
   referenceId |-> tr.referenceId, sessionId |-> tr.sessionId,
   attributes |-> tr.attributes, tags |-> tr.tags]

\* parsed.tokenUsage of line 184: x || 0 is x for a number
tokenUsage(tokens) ==
  [promptTokens |-> tokens.input, completionTokens |-> tokens.output,
   totalTokens |-> tokens.total]

ContentPayload_asFunction(s) ==
  [type |-> s.type, provider |-> Null(""), model |-> Null(""),
   cost |-> Null(0),
   output |-> Some([tokenUsage |-> IF s.output.isNull THEN NoUsage
                                   ELSE s.output.value.tokenUsage,
                    cost |-> s.cost, tokens |-> s.tokens])]

\* content of a span payload, lines 129-194: a member that is null is a key
\* the content does not have.  The output of a span that is not a Model
\* span is enriched with the span's cost and tokens (lines 142-159); a
\* Model span gets provider, model and cost at the top level and its
\* output, when it has one, gets tokenUsage from the span's tokens.
ContentPayload(s) ==
  IF s.type = "Model"
    THEN [type |-> s.type,
          provider |-> Some(IF s.provider.isNull THEN "openai"
                            ELSE s.provider.value),
          model |-> Some(Coalesce(s.model, s.inputModel, Some("")).value),
          cost |-> s.cost,
          output |-> IF s.output.isNull THEN Null([tokenUsage |-> NoUsage,
                                                  cost |-> Null(0),
                                                  tokens |-> NoTokens])
                     ELSE Some([tokenUsage |->
                                  IF s.tokens.isNull
                                    THEN s.output.value.tokenUsage
                                    ELSE Some(tokenUsage(s.tokens.value)),
                                cost |-> Null(0), tokens |-> NoTokens])]
    ELSE [type |-> s.type, provider |-> Null(""), model |-> Null(""),
          cost |-> Null(0),
          output |-> IF s.output.isNull /\ s.cost.isNull /\ s.tokens.isNull
                       THEN Null([tokenUsage |-> NoUsage, cost |-> Null(0),
                                  tokens |-> NoTokens])
                       ELSE Some([tokenUsage |->
                                    IF s.output.isNull THEN NoUsage
                                    ELSE s.output.value.tokenUsage,
                                  cost |-> s.cost, tokens |-> s.tokens])]

\* what building the payload does to the stored spans: parsed of line 180
\* is the span's own content.output object, so line 184 writes tokenUsage
\* into the stored span
StoredAfterPayload(tr) ==
  [tr EXCEPT !.spans =
     [i \in DOMAIN tr.spans |->
        IF /\ tr.spans[i].type = "Model"
           /\ ~tr.spans[i].output.isNull
           /\ ~tr.spans[i].tokens.isNull
          THEN [tr.spans[i] EXCEPT !.output =
                  Some([tokenUsage |-> Some(tokenUsage(tr.spans[i].tokens.value))])]
          ELSE tr.spans[i]]]

\* spansPayload, lines 128-221
SpanPayload(s) ==
  [startedAt |-> s.startedAt,
   endedAt |-> NormalizeEnd(s.startedAt, s.endedAt),
   name |-> s.name, status |-> mapStatus(s.status),
   content |-> ContentPayload(s),
   referenceId |-> s.referenceId,
   parentReferenceId |-> s.parentReferenceId, sessionId |-> s.sessionId]

SpansPayload(tr) == [i \in DOMAIN tr.spans |-> SpanPayload(tr.spans[i])]

\* ------------------------------------------------------------------------
\* Initial state: nothing loaded, nothing cached, no invocation started
\* ------------------------------------------------------------------------
InitProgram ==
  /\ proc = "start"
  /\ now = 1
  /\ cachedDeployedPrompt = Null(PayloadA)
  /\ cachedSystemMessage = Null(EmptyStr)
  /\ pc = [r \in Runs |-> "idle"]
  /\ trace = [r \in Runs |->
       [name |-> "", status |-> "success", startedAt |-> 0, endedAt |-> 0,
        referenceId |-> NoRef, sessionId |-> NoRef, attributes |-> <<>>,
        tags |-> <<>>, spans |-> <<>>]]
  /\ loc = [r \in Runs |->
       [ctx |-> "", start |-> 0, deployed |-> PayloadA, info |-> PayloadA,
        promptStart |-> 0, userQuery |-> EmptyStr, coachTemplate |-> EmptyStr,
        parentStart |-> 0, parentRef |-> NoRef, matches |-> <<>>,
        snippets |-> <<>>, result |-> "pending"]]
  /\ log = [r \in Runs |-> <<>>]
  /\ sub = [r \in Runs |->
       [calls |-> 0, posts |-> 0, spansAtCall |-> 0, statusAtCall |-> "",
        wire |-> <<>>, wireTrace |-> <<>>, wireStatus |-> "", response |-> "",
        returned |-> "no"]]
  /\ cfg = [calls |-> <<>>, fetches |-> 0, failed |-> FALSE,
            fetchFailed |-> FALSE, last |-> "none"]

Init ==
  /\ env \in [ADALINE_API_KEY : BOOLEAN, OAI_API_KEY : BOOLEAN]
  /\ InitProgram
  /\ inj = Off.inj
  /\ ch = Off.ch
  /\ pj = Off.pj
  /\ store = Off.store

LoadModuleUnchecked ==
  /\ proc = "start"
  /\ proc' = "loaded"
  /\ UNCHANGED <<env, now, cachedDeployedPrompt, cachedSystemMessage,
                 pc, trace, loc, log, sub, cfg, inj, ch, pj, store>>

\* Module load: fetchDeployedPrompt.tsx lines 4-5 throw when the credential
\* is missing; observability.ts imports that module, so nothing of the
\* program runs without ADALINE_API_KEY.
LoadModule ==
  /\ proc = "start"
  /\ proc' = IF env.ADALINE_API_KEY THEN "loaded" ELSE "crashed"
  /\ UNCHANGED <<env, now, cachedDeployedPrompt, cachedSystemMessage,
                 pc, trace, loc, log, sub, cfg, inj, ch, pj, store>>

\* The clock advances between any two steps.
Tick ==
  /\ now < MaxClock
  /\ now' = now + 1
  /\ UNCHANGED <<env, proc, cachedDeployedPrompt, cachedSystemMessage,
                 pc, trace, loc, log, sub, cfg, inj, ch, pj, store>>

\* contexts fetchDeployedPrompt is called from with a trace
TracedCtx == {"getFullPrompt", "callLLM"}

\* main, lines 355-357: createTrace, then getFullPrompt is entered
main_start(r) ==
  /\ proc = "loaded"
  /\ pc[r] = "idle"
  /\ trace' = [trace EXCEPT ![r] = createTrace(r, "The Running Coach App (RAG)")]
  /\ pc' = [pc EXCEPT ![r] = "getFullPrompt"]
  /\ UNCHANGED <<env, proc, now, cachedDeployedPrompt, cachedSystemMessage,
                 loc, log, sub, cfg, inj, ch, pj, store>>

\* getFullPrompt line 67 -> fetchAndCacheSystemMessage(trace), lines 20-26:
\* return when the system message is cached, else start the GET
getFullPrompt_enter(r) ==
  /\ pc[r] = "getFullPrompt"
  /\ IF ~cachedSystemMessage.isNull
       THEN /\ pc' = [pc EXCEPT ![r] = "getUserQuery"]
            /\ UNCHANGED <<loc, log>>
       ELSE /\ loc' = [loc EXCEPT ![r].ctx = "getFullPrompt", ![r].start = now]
            /\ log' = [log EXCEPT ![r] = Append(@, "GET")]
            /\ pc' = [pc EXCEPT ![r] = "fetching"]
  /\ UNCHANGED <<env, proc, now, cachedDeployedPrompt, cachedSystemMessage,
                 trace, sub, cfg, inj, ch, pj, store>>

\* where a successful fetchDeployedPrompt returns to
AfterFetch(ctx) ==
  CASE ctx = "getFullPrompt" -> "cacheSystemMessage"
    [] ctx = "getCoachTemplate" -> "cacheSystemMessage"
    [] ctx = "getUserQuery" -> "getCoachTemplate"
    [] OTHER -> "generating"

\* status of the fetch_deployed_payload span: set to error only on the
\* !response.ok path (line 63); a rejected fetch or json() leaves 'success'
FetchSpanStatus(o) == IF o = "http_error" THEN "error" ELSE "success"

\* fetchDeployedPrompt, lines 52-108: the response arrives
fetchDeployedPrompt_done(r) ==
  /\ pc[r] = "fetching"
  /\ \E o \in {"ok", "http_error", "network_error", "bad_body"}, p \in Payloads :
       LET ctx == loc[r].ctx
           span == SpanInput("fetch_deployed_payload", FetchSpanStatus(o),
                             loc[r].start, now, "Function", NoRef, NoRef)
       IN /\ trace' = [trace EXCEPT ![r] = addSpanIf(ctx \in TracedCtx, @, span)]
          /\ IF o = "ok"
               THEN /\ cachedDeployedPrompt' = Some(p)
                    /\ loc' = [loc EXCEPT
                         ![r].deployed = p,
                         ![r].info = IF ctx = "callLLM" THEN p ELSE @,
                         ![r].userQuery =
                            IF ctx = "getUserQuery"
                              THEN injectVariables(extractUserMessage(p), DEFAULT_QUERY_VARIABLES)
                              ELSE @]
                    /\ log' = [log EXCEPT ![r] =
                         IF ctx = "callLLM" THEN Append(@, "completeChat") ELSE @]
                    /\ pc' = [pc EXCEPT ![r] = AfterFetch(ctx)]
               ELSE /\ UNCHANGED <<cachedDeployedPrompt, loc>>
                    /\ log' = [log EXCEPT ![r] = Append(@, "GET failed")]
                    /\ pc' = [pc EXCEPT ![r] = "catch"]
  /\ UNCHANGED <<env, proc, now, cachedSystemMessage, sub, cfg, inj, ch, pj, store>>

cacheSystemMessage_append(r) ==
  /\ pc[r] = "cacheSystemMessage"
  /\ cachedSystemMessage' =
       Some(cachedSystemMessage.value \o extractSystemMessage(loc[r].deployed))
  /\ pc' = [pc EXCEPT ![r] =
       IF loc[r].ctx = "getFullPrompt" THEN "getUserQuery" ELSE "getCoachTemplate"]
  /\ UNCHANGED <<env, proc, now, cachedDeployedPrompt, trace, loc, log,
                 sub, cfg, inj, ch, pj, store>>

\* fetchAndCacheSystemMessage, line 27
cacheSystemMessage(r) ==
  /\ pc[r] = "cacheSystemMessage"
  /\ cachedSystemMessage' = Some(extractSystemMessage(loc[r].deployed))
  /\ pc' = [pc EXCEPT ![r] =
       IF loc[r].ctx = "getFullPrompt" THEN "getUserQuery" ELSE "getCoachTemplate"]
  /\ UNCHANGED <<env, proc, now, cachedDeployedPrompt, trace, loc, log,
                 sub, cfg, inj, ch, pj, store>>

\* getFullPrompt lines 69-70 -> getUserQuery -> getInjectedUserQuery ->
\* getLatestDeployedPrompt() (no trace)
main_getUserQuery(r) ==
  /\ pc[r] = "getUserQuery"
  /\ IF ~cachedDeployedPrompt.isNull
       THEN /\ loc' = [loc EXCEPT
                 ![r].promptStart = now,
                 ![r].userQuery =
                    injectVariables(extractUserMessage(cachedDeployedPrompt.value),
                                    DEFAULT_QUERY_VARIABLES)]
            /\ pc' = [pc EXCEPT ![r] = "getCoachTemplate"]
            /\ UNCHANGED log
       ELSE /\ loc' = [loc EXCEPT ![r].promptStart = now,
                                  ![r].ctx = "getUserQuery", ![r].start = now]
            /\ log' = [log EXCEPT ![r] = Append(@, "GET")]
            /\ pc' = [pc EXCEPT ![r] = "fetching"]
  /\ UNCHANGED <<env, proc, now, cachedDeployedPrompt, cachedSystemMessage,
                 trace, sub, cfg, inj, ch, pj, store>>

\* !cachedSystemMessage of getCoachTemplate line 43: null or the empty text
Falsy(cache) == cache.isNull \/ cache.value = EmptyStr

\* getFullPrompt lines 72-114 -> getCoachTemplate() (no trace), lines 40-48
main_getCoachTemplate(r) ==
  /\ pc[r] = "getCoachTemplate"
  /\ IF cachedSystemMessage.isNull
       THEN /\ loc' = [loc EXCEPT ![r].ctx = "getCoachTemplate", ![r].start = now]
            /\ log' = [log EXCEPT ![r] = Append(@, "GET")]
            /\ pc' = [pc EXCEPT ![r] = "fetching"]
            /\ UNCHANGED trace
       ELSE IF Falsy(cachedSystemMessage)
         THEN /\ pc' = [pc EXCEPT ![r] = "catch"]
              /\ log' = [log EXCEPT ![r] = Append(@, "template failed")]
              /\ UNCHANGED <<trace, loc>>
         ELSE /\ loc' = [loc EXCEPT ![r].coachTemplate = cachedSystemMessage.value]
              /\ trace' = [trace EXCEPT ![r] =
                   addSpan(@, SpanInput("prompt_retrieval", "success",
                                        loc[r].promptStart, now, "Function",
                                        NoRef, NoRef))]
              /\ pc' = [pc EXCEPT ![r] = "assemble"]
              /\ UNCHANGED log
  /\ UNCHANGED <<env, proc, now, cachedDeployedPrompt, cachedSystemMessage,
                 sub, cfg, inj, ch, pj, store>>

\* assembleAugmentedPrompt lines 40-48 -> retrieveTopK lines 129-139 ->
\* createQueryEmbedding lines 49-62: the embedding request is sent unless
\* OAI_API_KEY is missing (thrown before the try, so no span is recorded)
assembleAugmentedPrompt_start(r) ==
  /\ pc[r] = "assemble"
  /\ loc' = [loc EXCEPT ![r].parentStart = now,
                        ![r].parentRef = <<"assemble_augmented_prompt", now>>,
                        ![r].start = now]
  /\ IF env.OAI_API_KEY
       THEN /\ log' = [log EXCEPT ![r] = Append(@, "getEmbeddings")]
            /\ pc' = [pc EXCEPT ![r] = "embedding"]
       ELSE /\ log' = [log EXCEPT ![r] = Append(@, "getEmbeddings failed")]
            /\ pc' = [pc EXCEPT ![r] = "catch"]
  /\ UNCHANGED <<env, proc, now, cachedDeployedPrompt, cachedSystemMessage,
                 trace, sub, cfg, inj, ch, pj, store>>

\* createQueryEmbedding lines 62-124, then retrieveTopK lines 141-148:
\* the embedding answer arrives; on success the vector-store query is sent
createQueryEmbedding_done(r) ==
  /\ pc[r] = "embedding"
  /\ \E o \in {"ok", "throw", "empty"} :
       /\ trace' = [trace EXCEPT ![r] =
            addSpan(@, SpanInput("embedding_create",
                                 IF o = "ok" THEN "success" ELSE "error",
                                 loc[r].start, now, "Embeddings",
                                 NoRef, loc[r].parentRef))]
       /\ IF o = "ok"
            THEN /\ loc' = [loc EXCEPT ![r].start = now]
                 /\ log' = [log EXCEPT ![r] = Append(@, "query")]
                 /\ pc' = [pc EXCEPT ![r] = "querying"]
            ELSE /\ log' = [log EXCEPT ![r] = Append(@, "getEmbeddings failed")]
                 /\ pc' = [pc EXCEPT ![r] = "catch"]
                 /\ UNCHANGED loc
  /\ UNCHANGED <<env, proc, now, cachedDeployedPrompt, cachedSystemMessage,
                 sub, cfg, inj, ch, pj, store>>

retrieveTopK_done_swallow(r) ==
  /\ pc[r] = "querying"
  /\ \E o \in {"ok", "throw"}, ms \in MatchLists(MaxMatches) :
       /\ trace' = [trace EXCEPT ![r] =
            addSpan(@, SpanInput("pinecone_query",
                                 IF o = "ok" THEN "success" ELSE "error",
                                 loc[r].start, now, "Retrieval",
                                 NoRef, loc[r].parentRef))]
       /\ loc' = [loc EXCEPT ![r].matches = IF o = "ok" THEN ms ELSE <<>>]
       /\ pc' = [pc EXCEPT ![r] = "resolve"]
       /\ log' = [log EXCEPT ![r] =
            IF o = "ok" THEN @ ELSE Append(@, "query failed")]
  /\ UNCHANGED <<env, proc, now, cachedDeployedPrompt, cachedSystemMessage,
                 sub, cfg, inj, ch, pj, store>>

\* retrieveTopK lines 148-207: the vector-store answer arrives
retrieveTopK_done(r) ==
  /\ pc[r] = "querying"
  /\ \E o \in {"ok", "throw"}, ms \in MatchLists(MaxMatches) :
       /\ trace' = [trace EXCEPT ![r] =
            addSpan(@, SpanInput("pinecone_query",
                                 IF o = "ok" THEN "success" ELSE "error",
                                 loc[r].start, now, "Retrieval",
                                 NoRef, loc[r].parentRef))]
       /\ IF o = "ok"
            THEN /\ loc' = [loc EXCEPT ![r].matches = ms]
                 /\ pc' = [pc EXCEPT ![r] = "resolve"]
                 /\ UNCHANGED log
            ELSE /\ log' = [log EXCEPT ![r] = Append(@, "query failed")]
                 /\ pc' = [pc EXCEPT ![r] = "catch"]
                 /\ UNCHANGED loc
  /\ UNCHANGED <<env, proc, now, cachedDeployedPrompt, cachedSystemMessage,
                 sub, cfg, inj, ch, pj, store>>

\* assembleAugmentedPrompt lines 51-60: each match gives a snippet or none
resolveMatches(r) ==
  /\ pc[r] = "resolve"
  /\ loc' = [loc EXCEPT ![r].snippets = ResolveFrom(DataFolder, loc[r].matches, 1)]
  /\ pc' = [pc EXCEPT ![r] = "augment"]
  /\ UNCHANGED <<env, proc, now, cachedDeployedPrompt, cachedSystemMessage,
                 trace, log, sub, cfg, inj, ch, pj, store>>

augmentPrompt_lateStart(r) ==
  /\ pc[r] = "augment"
  /\ trace' = [trace EXCEPT ![r] =
       addSpan(addSpan(@, SpanInput("prompt_augmentation", "success", now, now,
                                    "Function", NoRef, loc[r].parentRef)),
               SpanInput("assemble_augmented_prompt", "success",
                         now, now, "Function",
                         loc[r].parentRef, NoRef))]
  /\ loc' = [loc EXCEPT ![r].matches = <<>>, ![r].snippets = <<>>]
  /\ pc' = [pc EXCEPT ![r] = "callLLM"]
  /\ UNCHANGED <<env, proc, now, cachedDeployedPrompt, cachedSystemMessage,
                 log, sub, cfg, inj, ch, pj, store>>

augmentPrompt_earlyEnd(r) ==
  /\ pc[r] = "augment"
  /\ trace' = [trace EXCEPT ![r] =
       addSpan(addSpan(@, SpanInput("prompt_augmentation", "success", now, now,
                                    "Function", NoRef, loc[r].parentRef)),
               SpanInput("assemble_augmented_prompt", "success",
                         loc[r].parentStart, loc[r].parentStart, "Function",
                         loc[r].parentRef, NoRef))]
  /\ loc' = [loc EXCEPT ![r].matches = <<>>, ![r].snippets = <<>>]
  /\ pc' = [pc EXCEPT ![r] = "callLLM"]
  /\ UNCHANGED <<env, proc, now, cachedDeployedPrompt, cachedSystemMessage,
                 log, sub, cfg, inj, ch, pj, store>>

\* assembleAugmentedPrompt lines 64-154: the augmentation span, then the
\* parent span that carries parentReferenceId as its referenceId
augmentPrompt(r) ==
  /\ pc[r] = "augment"
  /\ trace' = [trace EXCEPT ![r] =
       addSpan(addSpan(@, SpanInput("prompt_augmentation", "success", now, now,
                                    "Function", NoRef, loc[r].parentRef)),
               SpanInput("assemble_augmented_prompt", "success",
                         loc[r].parentStart, now, "Function",
                         loc[r].parentRef, NoRef))]
  /\ loc' = [loc EXCEPT ![r].matches = <<>>, ![r].snippets = <<>>]
  /\ pc' = [pc EXCEPT ![r] = "callLLM"]
  /\ UNCHANGED <<env, proc, now, cachedDeployedPrompt, cachedSystemMessage,
                 log, sub, cfg, inj, ch, pj, store>>

callLLM_start_refetch(r) ==
  /\ pc[r] = "callLLM"
  /\ IF ~env.OAI_API_KEY
       THEN /\ log' = [log EXCEPT ![r] = Append(@, "completeChat failed")]
            /\ pc' = [pc EXCEPT ![r] = "catch"]
            /\ loc' = [loc EXCEPT ![r].start = now]
       ELSE /\ loc' = [loc EXCEPT ![r].start = now, ![r].ctx = "callLLM"]
            /\ log' = [log EXCEPT ![r] = Append(@, "GET")]
            /\ pc' = [pc EXCEPT ![r] = "fetching"]
  /\ UNCHANGED <<env, proc, now, cachedDeployedPrompt, cachedSystemMessage,
                 trace, sub, cfg, inj, ch, pj, store>>

\* callLLM lines 166-200: key check, getDeploymentInfo(trace) ->
\* getLatestDeployedPrompt(trace), then the generation request is sent
callLLM_start(r) ==
  /\ pc[r] = "callLLM"
  /\ IF ~env.OAI_API_KEY
       THEN /\ log' = [log EXCEPT ![r] = Append(@, "completeChat failed")]
            /\ pc' = [pc EXCEPT ![r] = "catch"]
            /\ loc' = [loc EXCEPT ![r].start = now]
       ELSE IF ~cachedDeployedPrompt.isNull
         THEN /\ loc' = [loc EXCEPT ![r].start = now,
                                    ![r].info = cachedDeployedPrompt.value]
              /\ log' = [log EXCEPT ![r] = Append(@, "completeChat")]
              /\ pc' = [pc EXCEPT ![r] = "generating"]
         ELSE /\ loc' = [loc EXCEPT ![r].start = now, ![r].ctx = "callLLM"]
              /\ log' = [log EXCEPT ![r] = Append(@, "GET")]
              /\ pc' = [pc EXCEPT ![r] = "fetching"]
  /\ UNCHANGED <<env, proc, now, cachedDeployedPrompt, cachedSystemMessage,
                 trace, sub, cfg, inj, ch, pj, store>>

\* callLLM lines 200-349: the generation answer arrives; the llm_call span
\* is added in the finally block on both paths
callLLM_done(r) ==
  /\ pc[r] = "generating"
  /\ \E o \in {"ok", "throw"},
        usage \in {NoTokens, Some([input |-> 1, output |-> 2, total |-> 3])} :
       /\ o = "throw" => usage = NoTokens
       /\ trace' = [trace EXCEPT ![r] =
            addSpan(@, [SpanInput("llm_call",
                                  IF o = "ok" THEN "success" ELSE "error",
                                  loc[r].start, now, "Model", NoRef, NoRef)
                          EXCEPT !.provider = Some(loc[r].info.providerName),
                                 !.model = Some(loc[r].info.model),
                                 !.inputModel = Some(loc[r].info.model),
                                 !.output = Some([tokenUsage |->
                                   IF usage.isNull THEN NoUsage
                                   ELSE Some(tokenUsage(usage.value))]),
                                 !.cost = Some(1),
                                 !.tokens = usage])]
       /\ IF o = "ok"
            THEN /\ loc' = [loc EXCEPT ![r].result = "response"]
                 /\ pc' = [pc EXCEPT ![r] = "submit"]
                 /\ UNCHANGED log
            ELSE /\ log' = [log EXCEPT ![r] = Append(@, "completeChat failed")]
                 /\ pc' = [pc EXCEPT ![r] = "catch"]
                 /\ UNCHANGED loc
  /\ UNCHANGED <<env, proc, now, cachedDeployedPrompt, cachedSystemMessage,
                 sub, cfg, inj, ch, pj, store>>

main_catch_noMark(r) ==
  /\ pc[r] = "catch"
  /\ loc' = [loc EXCEPT ![r].result = "failed"]
  /\ pc' = [pc EXCEPT ![r] = "submit"]
  /\ UNCHANGED <<env, proc, now, cachedDeployedPrompt, cachedSystemMessage,
                 trace, log, sub, cfg, inj, ch, pj, store>>

main_catch_noSubmit(r) ==
  /\ pc[r] = "catch"
  /\ trace' = [trace EXCEPT ![r].status = "error"]
  /\ loc' = [loc EXCEPT ![r].result = "failed"]
  /\ pc' = [pc EXCEPT ![r] = "done"]
  /\ UNCHANGED <<env, proc, now, cachedDeployedPrompt, cachedSystemMessage,
                 log, sub, cfg, inj, ch, pj, store>>

\* main lines 388-392: the catch block
main_catch(r) ==
  /\ pc[r] = "catch"
  /\ trace' = [trace EXCEPT ![r].status = "error"]
  /\ loc' = [loc EXCEPT ![r].result = "failed"]
  /\ pc' = [pc EXCEPT ![r] = "submit"]
  /\ UNCHANGED <<env, proc, now, cachedDeployedPrompt, cachedSystemMessage,
                 log, sub, cfg, inj, ch, pj, store>>

\* submitTrace lines 98-231, called from main's finally block (line 395) or
\* by a user of the library: finalize, build the payload, send the POST
submitTrace(r) ==
  /\ pc[r] \in {"submit", "lib"}
  /\ IF ~env.ADALINE_API_KEY
       THEN /\ sub' = [sub EXCEPT ![r].calls = @ + 1,
                                  ![r].spansAtCall = Len(trace[r].spans),
                                  ![r].statusAtCall = trace[r].status,
                                  ![r].returned = "normally"]
            /\ pc' = [pc EXCEPT ![r] = "done"]
            /\ UNCHANGED trace
       ELSE /\ trace' = [trace EXCEPT ![r] = StoredAfterPayload(Finalize(@))]
            /\ sub' = [sub EXCEPT ![r].calls = @ + 1,
                                  ![r].spansAtCall = Len(trace[r].spans),
                                  ![r].statusAtCall = trace[r].status,
                                  ![r].posts = @ + 1,
                                  ![r].wire = SpansPayload(Finalize(trace[r])),
                                  ![r].wireTrace = TracePayload(Finalize(trace[r])),
                                  ![r].wireStatus = TracePayload(Finalize(trace[r])).status,
                                  ![r].returned = "no"]
            /\ pc' = [pc EXCEPT ![r] = "posting"]
  /\ UNCHANGED <<env, proc, now, cachedDeployedPrompt, cachedSystemMessage,
                 loc, log, cfg, inj, ch, pj, store>>

PostReturnRethrow(o) == IF o = "throw" THEN "threw" ELSE "normally"

\* how submitTrace ends for an outcome of the POST: lines 233-241 log and
\* swallow both a response that is not ok and a rejected fetch
PostReturn(o) == "normally"

\* submitTrace lines 224-241: the POST is answered or rejected; main awaits
\* submitTrace in its finally block, so a rejection would reject main
submitTrace_done(r) ==
  /\ pc[r] = "posting"
  /\ \E o \in {"ok", "not_ok", "throw"} :
       /\ sub' = [sub EXCEPT ![r].returned = PostReturn(o), ![r].response = o]
       /\ loc' = [loc EXCEPT ![r].result =
            IF PostReturn(o) = "normally" THEN @ ELSE "rejected"]
  /\ pc' = [pc EXCEPT ![r] = "done"]
  /\ UNCHANGED <<env, proc, now, cachedDeployedPrompt, cachedSystemMessage,
                 trace, log, cfg, inj, ch, pj, store>>

\* One step of invocation r of main
Step(r) ==
  \/ main_start(r)
  \/ getFullPrompt_enter(r)
  \/ fetchDeployedPrompt_done(r)
  \/ cacheSystemMessage(r)
  \/ main_getUserQuery(r)
  \/ main_getCoachTemplate(r)
  \/ assembleAugmentedPrompt_start(r)
  \/ createQueryEmbedding_done(r)
  \/ retrieveTopK_done(r)
  \/ resolveMatches(r)
  \/ augmentPrompt(r)
  \/ callLLM_start(r)
  \/ callLLM_done(r)
  \/ main_catch(r)
  \/ submitTrace(r)
  \/ submitTrace_done(r)

\* The program as it is started (response.tsx line 399): the module is
\* loaded and main runs once, the clock advancing between its steps.
Next == LoadModule \/ Tick \/ Step("r1")

Spec == Init /\ [][Next]_vars

\* Two invocations of main that overlap in one process (section 5 of the
\* design): their steps interleave at the suspension points.
NextOverlap == LoadModule \/ \E r \in Runs : Step(r)

SpecOverlap == Init /\ [][NextOverlap]_vars

\* ------------------------------------------------------------------------
\* The trace library used directly (as testSpanOutput does): any spans,
\* in any number up to MaxSpans, submitted up to MaxSubmits times
\* ------------------------------------------------------------------------
LibRun == "r1"

lib_createTrace ==
  /\ proc = "loaded"
  /\ pc[LibRun] = "idle"
  /\ trace' = [trace EXCEPT ![LibRun] = createTrace(LibRun, "Test Trace")]
  /\ pc' = [pc EXCEPT ![LibRun] = "lib"]
  /\ UNCHANGED <<env, proc, now, cachedDeployedPrompt, cachedSystemMessage,
                 loc, log, sub, cfg, inj, ch, pj, store>>

\* spans a caller of the library may pass at time t: a Function span
\* that has not ended, a failed one of no duration, one that names a
\* session of its own, the Model span of testSpanOutput (provider, model,
\* output, cost and tokens) and a Model span with none of the optional
\* members (output is required of a Model span by ModelSpanContent)
LibSpans(t) ==
  LET function(st, e) ==
        [SpanInput("span", st, t, e, "Function", NoRef, NoRef)
           EXCEPT !.cost = Null(0)]
      model == SpanInput("test_llm", "success", t, t + 1, "Model",
                         NoRef, NoRef)
  IN { function("success", 0),
       function("error", t),
       [function("success", t + 1) EXCEPT !.name = "session_span",
                                          !.sessionId = <<"session", "own">>],
       [model EXCEPT !.provider = Some("openai"),
                     !.model = Some("gpt-4.1-mini"),
                     !.inputModel = Some("gpt-4.1-mini"),
                     !.cost = Some(5),
                     !.tokens = Some([input |-> 1, output |-> 2, total |-> 3])],
       [model EXCEPT !.inputModel = Some("gpt-4.1-mini"), !.cost = Null(0)] }

\* addSpan(trace, span) with a span of the caller's choice
lib_addSpan ==
  /\ pc[LibRun] = "lib"
  /\ Len(trace[LibRun].spans) < MaxSpans
  /\ \E span \in LibSpans(now) :
       trace' = [trace EXCEPT ![LibRun] = addSpan(@, span)]
  /\ UNCHANGED <<env, proc, now, cachedDeployedPrompt, cachedSystemMessage,
                 pc, loc, log, sub, cfg, inj, ch, pj, store>>

\* trace.status = 'error', as the orchestrator's catch block does
lib_markError ==
  /\ pc[LibRun] = "lib"
  /\ trace[LibRun].status = "success"
  /\ trace' = [trace EXCEPT ![LibRun].status = "error"]
  /\ UNCHANGED <<env, proc, now, cachedDeployedPrompt, cachedSystemMessage,
                 pc, loc, log, sub, cfg, inj, ch, pj, store>>

\* the caller goes on using the trace after submitTrace has returned
lib_again ==
  /\ pc[LibRun] = "done"
  /\ sub[LibRun].calls < MaxSubmits
  /\ pc' = [pc EXCEPT ![LibRun] = "lib"]
  /\ UNCHANGED <<env, proc, now, cachedDeployedPrompt, cachedSystemMessage,
                 trace, loc, log, sub, cfg, inj, ch, pj, store>>

\* time passes between createTrace and the first addSpan
lib_wait ==
  /\ pc[LibRun] = "lib"
  /\ trace[LibRun].spans = <<>>
  /\ Tick

NextTrace ==
  \/ LoadModule
  \/ lib_wait
  \/ lib_createTrace
  \/ lib_addSpan
  \/ lib_markError
  \/ submitTrace(LibRun)
  \/ submitTrace_done(LibRun)
  \/ lib_again

SpecTrace == Init /\ [][NextTrace]_vars

\* ------------------------------------------------------------------------
\* The configuration accessors called one after another (no trace): each
\* call runs to completion before the next one starts.  c is the state of
\* the two caches with the outcome of the call: fetches counts the GETs
\* issued, threw tells whether the call rejected, ret is what it returned.
\* (o, p) is the answer of the remote to the GET the call may issue.
\* ------------------------------------------------------------------------
CfgState(dp, sm) ==
  [dp |-> dp, sm |-> sm, fetches |-> 0, threw |-> FALSE, ret |-> PayloadA,
   text |-> EmptyStr]

fetchDeployedPrompt_cacheAnyBody(c, o, p) ==
  IF o = "ok"
    THEN [c EXCEPT !.fetches = @ + 1, !.dp = Some(p), !.ret = p]
    ELSE [c EXCEPT !.fetches = @ + 1, !.threw = TRUE,
                   !.dp = IF o = "http_error" THEN Some(p) ELSE @]

\* fetchDeployedPrompt(), lines 44-72
fetchDeployedPrompt(c, o, p) ==
  IF o = "ok"
    THEN [c EXCEPT !.fetches = @ + 1, !.dp = Some(p), !.ret = p]
    ELSE [c EXCEPT !.fetches = @ + 1, !.threw = TRUE]

\* getLatestDeployedPrompt(), lines 114-117
getLatestDeployedPrompt(c, o, p) ==
  IF ~c.dp.isNull THEN [c EXCEPT !.ret = c.dp.value]
  ELSE fetchDeployedPrompt(c, o, p)

\* getDeploymentInfo(), lines 122-143
getDeploymentInfo(c, o, p) == getLatestDeployedPrompt(c, o, p)

\* fetchAndCacheSystemMessage(), prompt.tsx lines 20-32
fetchAndCacheSystemMessage(c, o, p) ==
  IF ~c.sm.isNull THEN c
  ELSE LET c1 == fetchDeployedPrompt(c, o, p)
       IN IF c1.threw THEN c1
          ELSE [c1 EXCEPT !.sm = Some(extractSystemMessage(c1.ret))]

\* getCoachTemplate(), prompt.tsx lines 40-48
getCoachTemplate(c, o, p) ==
  LET c1 == fetchAndCacheSystemMessage(c, o, p)
  IN IF c1.threw THEN c1
     ELSE IF Falsy(c1.sm) THEN [c1 EXCEPT !.threw = TRUE]
     ELSE [c1 EXCEPT !.text = c1.sm.value]

\* getUserQuery() -> getInjectedUserQuery(), fetchDeployedPrompt.tsx 215-219
getUserQuery(c, o, p) ==
  LET c1 == getLatestDeployedPrompt(c, o, p)
  IN IF c1.threw THEN c1
     ELSE [c1 EXCEPT !.text =
             injectVariables(extractUserMessage(c1.ret), DEFAULT_QUERY_VARIABLES)]

\* getFullPrompt() without a trace, prompt.tsx lines 64-115
getFullPrompt(c, o, p) ==
  LET c1 == fetchAndCacheSystemMessage(c, o, p)
  IN IF c1.threw THEN c1
     ELSE LET c2 == getUserQuery(c1, o, p)
          IN IF c2.threw THEN c2 ELSE getCoachTemplate(c2, o, p)

Accessors ==
  {"getFullPrompt", "getCoachTemplate", "getUserQuery", "getDeploymentInfo",
   "getLatestDeployedPrompt", "fetchDeployedPrompt"}

CallAccessor(a, c, o, p) ==
  CASE a = "getFullPrompt" -> getFullPrompt(c, o, p)
    [] a = "getCoachTemplate" -> getCoachTemplate(c, o, p)
    [] a = "getUserQuery" -> getUserQuery(c, o, p)
    [] a = "getDeploymentInfo" -> getDeploymentInfo(c, o, p)
    [] a = "getLatestDeployedPrompt" -> getLatestDeployedPrompt(c, o, p)
    [] OTHER -> fetchDeployedPrompt(c, o, p)

\* one call of accessor a, the remote answering (o, p) if it is asked
cfg_call(a) ==
  /\ proc = "loaded"
  /\ Len(cfg.calls) < MaxCalls
  /\ \E o \in {"ok", "http_error", "network_error", "bad_body"}, p \in Payloads :
       LET c == CallAccessor(a, CfgState(cachedDeployedPrompt, cachedSystemMessage), o, p)
       IN /\ cachedDeployedPrompt' = c.dp
          /\ cachedSystemMessage' = c.sm
          /\ cfg' = [calls |-> Append(cfg.calls, a),
                     fetches |-> cfg.fetches + c.fetches,
                     failed |-> cfg.failed \/ (c.fetches > 0 /\ o # "ok"),
                     fetchFailed |-> c.fetches > 0 /\ o # "ok",
                     last |-> IF c.threw THEN "threw" ELSE "returned"]
  /\ UNCHANGED <<env, proc, now, pc, trace, loc, log, sub, inj, ch, pj, store>>

NextCfg ==
  \/ LoadModule
  \/ cfg_call("getFullPrompt")
  \/ cfg_call("getCoachTemplate")
  \/ cfg_call("getUserQuery")
  \/ cfg_call("getDeploymentInfo")
  \/ cfg_call("getLatestDeployedPrompt")
  \/ cfg_call("fetchDeployedPrompt")

SpecCfg == Init /\ [][NextCfg]_vars

RECURSIVE TemplatesOf(_)
TemplatesOf(n) ==
  IF n = 0 THEN { <<>> }
  ELSE TemplatesOf(n - 1)
         \cup { t \o q : t \in TemplatesOf(n - 1),
                          q \in { <<"{", "{">>, <<"}", "}">>, <<" ">>, <<"X">>,
                                  <<"constructor">>, <<"}">> } }

VariableSets ==
  { [k \in {} |-> <<>>], [X |-> <<"run">>], [X |-> <<"{", "{", "X", "}", "}">>] }

InitInject ==
  /\ env = [ADALINE_API_KEY |-> TRUE, OAI_API_KEY |-> TRUE]
  /\ InitProgram
  /\ inj \in { [template |-> t, variables |-> v, out |-> <<>>, done |-> FALSE] :
               t \in TemplatesOf(MaxPieces), v \in VariableSets }
  /\ ch = Off.ch
  /\ pj = Off.pj
  /\ store = Off.store

inj_apply ==
  /\ ~inj.done
  /\ inj' = [inj EXCEPT !.out = injectVariables(inj.template, inj.variables),
                        !.done = TRUE]
  /\ UNCHANGED <<env, proc, now, cachedDeployedPrompt, cachedSystemMessage,
                 pc, trace, loc, log, sub, cfg, ch, pj, store>>

NextInject == inj_apply

SpecInject == InitInject /\ [][NextInject]_vars

\* ------------------------------------------------------------------------
\* splitIntoChunks (createDB.tsx).  A text is a sequence of characters.
\* The function is synchronous; it is modelled loop iteration by loop
\* iteration, so that a loop that does not end is a behaviour of the model.
\* ------------------------------------------------------------------------
\* [.?!] of the sentence pattern
IsTerminator(c) == c \in {".", "?", "!"}

\* length of the run of whitespace that starts at i: what \s+ consumes
RECURSIVE WhitespaceRun(_, _)
WhitespaceRun(t, i) ==
  IF i > Len(t) \/ ~IsWhitespace(t[i]) THEN 0 ELSE 1 + WhitespaceRun(t, i + 1)

\* text.split(/(?<=[.?!])\s+/g) from position i on, cur being the piece
\* under construction: a separator is a run of whitespace that directly
\* follows a terminator; the separators are not part of the pieces
RECURSIVE SplitFrom(_, _, _)
SplitFrom(t, i, cur) ==
  IF i > Len(t) THEN <<cur>>
  ELSE IF i > 1 /\ IsTerminator(t[i - 1]) /\ IsWhitespace(t[i])
    THEN <<cur>> \o SplitFrom(t, i + WhitespaceRun(t, i), <<>>)
    ELSE SplitFrom(t, i + 1, Append(cur, t[i]))

SplitSentences(text) == SplitFrom(text, 1, <<>>)

\* (current + ' ' + s).trim()
Joined(current, s) == Trim(current \o <<" ">> \o s)

\* lines 83-85: the sentences, no chunk, an empty buffer
chunk_call ==
  /\ ch.pc = "call"
  /\ ch' = [ch EXCEPT !.pc = "loop", !.sentences = SplitSentences(ch.text),
                      !.k = 1, !.current = <<>>, !.chunks = <<>>]
  /\ UNCHANGED <<env, proc, now, cachedDeployedPrompt, cachedSystemMessage,
                 pc, trace, loc, log, sub, cfg, inj, pj, store>>

chunk_sentence_keepSeed ==
  /\ ch.pc = "loop"
  /\ ch.k <= Len(ch.sentences)
  /\ LET s == ch.sentences[ch.k]
         emit == Len(ch.current) > 0
         chunks1 == IF emit THEN Append(ch.chunks, ch.current) ELSE ch.chunks
         startOverlap == MathMax(0, Len(ch.current) - ch.overlap)
         current1 == IF emit
                       THEN Trim(slice(ch.current, startOverlap, Len(ch.current)))
                       ELSE ch.current
     IN IF Len(Joined(ch.current, s)) <= ch.chunkSize
          THEN ch' = [ch EXCEPT !.current = Joined(ch.current, s), !.k = @ + 1]
          ELSE IF Len(s) > ch.chunkSize
            THEN ch' = [ch EXCEPT !.chunks = chunks1, !.current = current1,
                                  !.i = 0, !.pc = "window"]
            ELSE ch' = [ch EXCEPT !.chunks = chunks1, !.current = current1,
                                  !.k = @ + 1]
  /\ UNCHANGED <<env, proc, now, cachedDeployedPrompt, cachedSystemMessage,
                 pc, trace, loc, log, sub, cfg, inj, pj, store>>

\* lines 87-98 and 103-106: one iteration of the loop over the sentences,
\* up to the entry of the hard-split loop
chunk_sentence ==
  /\ ch.pc = "loop"
  /\ ch.k <= Len(ch.sentences)
  /\ LET s == ch.sentences[ch.k]
         emit == Len(ch.current) > 0
         chunks1 == IF emit THEN Append(ch.chunks, ch.current) ELSE ch.chunks
         startOverlap == MathMax(0, Len(ch.current) - ch.overlap)
         current1 == IF emit
                       THEN Trim(slice(ch.current, startOverlap, Len(ch.current)))
                       ELSE ch.current
     IN IF Len(Joined(ch.current, s)) <= ch.chunkSize
          THEN ch' = [ch EXCEPT !.current = Joined(ch.current, s), !.k = @ + 1]
          ELSE IF Len(s) > ch.chunkSize
            THEN ch' = [ch EXCEPT !.chunks = chunks1, !.current = current1,
                                  !.i = 0, !.pc = "window"]
            ELSE ch' = [ch EXCEPT !.chunks = chunks1, !.current = Trim(s),
                                  !.k = @ + 1]
  /\ UNCHANGED <<env, proc, now, cachedDeployedPrompt, cachedSystemMessage,
                 pc, trace, loc, log, sub, cfg, inj, pj, store>>

\* line 99, the test `i < s.length` of the hard-split loop, and line 102
\* when it fails
chunk_window ==
  /\ ch.pc = "window"
  /\ IF ch.i < Len(ch.sentences[ch.k])
       THEN ch' = [ch EXCEPT !.pc = "push"]
       ELSE ch' = [ch EXCEPT !.current = <<>>, !.i = 0, !.k = @ + 1,
                             !.pc = "loop"]
  /\ UNCHANGED <<env, proc, now, cachedDeployedPrompt, cachedSystemMessage,
                 pc, trace, loc, log, sub, cfg, inj, pj, store>>

\* lines 99-100: the body of the hard-split loop and its increment.  Of a
\* call that pushes more than MaxChunks chunks the model keeps the first
\* MaxChunks; -(s.length + chunkSize) is the least value of i the model
\* tells apart: from there down every window s.slice(i, i + chunkSize) is
\* empty and the test of line 99 holds.
chunk_push ==
  /\ ch.pc = "push"
  /\ LET s == ch.sentences[ch.k]
     IN ch' = [ch EXCEPT
          !.chunks = IF Len(@) < MaxChunks
                       THEN Append(@, slice(s, ch.i, ch.i + ch.chunkSize))
                       ELSE @,
          !.i = MathMax(@ + (ch.chunkSize - ch.overlap),
                        0 - (Len(s) + ch.chunkSize)),
          !.pc = "window"]
  /\ UNCHANGED <<env, proc, now, cachedDeployedPrompt, cachedSystemMessage,
                 pc, trace, loc, log, sub, cfg, inj, pj, store>>

chunk_return_always ==
  /\ ch.pc = "loop"
  /\ ch.k > Len(ch.sentences)
  /\ ch' = [ch EXCEPT !.chunks = Append(@, ch.current), !.pc = "done"]
  /\ UNCHANGED <<env, proc, now, cachedDeployedPrompt, cachedSystemMessage,
                 pc, trace, loc, log, sub, cfg, inj, pj, store>>

\* lines 108-109: the last buffer, and the return
chunk_return ==
  /\ ch.pc = "loop"
  /\ ch.k > Len(ch.sentences)
  /\ ch' = [ch EXCEPT
       !.chunks = IF Len(ch.current) > 0 THEN Append(@, ch.current) ELSE @,
       !.pc = "done"]
  /\ UNCHANGED <<env, proc, now, cachedDeployedPrompt, cachedSystemMessage,
                 pc, trace, loc, log, sub, cfg, inj, pj, store>>

RECURSIVE TextsUpTo(_)
TextsUpTo(n) ==
  IF n = 0 THEN { <<>> }
  ELSE TextsUpTo(n - 1)
         \cup { Append(t, c) : t \in TextsUpTo(n - 1), c \in {"A", "B", ".", " "} }

\* "A. B. C."
ExampleText == <<"A", ".", " ", "B", ".", " ", "C", ".">>

Texts == TextsUpTo(MaxText) \cup {ExampleText}

\* splitIntoChunks(text, chunkSize, overlap) is called with any text and
\* any positive chunkSize and overlap, overlap >= chunkSize included
InitChunk ==
  /\ env = [ADALINE_API_KEY |-> TRUE, OAI_API_KEY |-> TRUE]
  /\ InitProgram
  /\ inj = Off.inj
  /\ pj = Off.pj
  /\ store = Off.store
  /\ ch \in { [Off.ch EXCEPT !.pc = "call", !.text = t, !.chunkSize = n, !.overlap = o] :
              t \in Texts, n \in 1..MaxSize, o \in 0..MaxOverlap }

NextChunk ==
  chunk_call \/ chunk_sentence \/ chunk_window \/ chunk_push \/ chunk_return

SpecChunk == InitChunk /\ [][NextChunk]_vars

\* the same, the call being run to its end when it has one
SpecChunkLive == SpecChunk /\ WF_vars(NextChunk)

\* ------------------------------------------------------------------------
\* projectToDim (retrieve.tsx; createDB.tsx holds the same text).
\* A JavaScript number is a binary floating-point number: the result of an
\* addition or a division is the exact result rounded to the nearest number
\* with a significand of so many bits (53 in the language, SignificandBits
\* here), ties to the even significand.  A number of the model is a
\* non-negative integer that counts units of 1/Unit; Unit is small enough
\* for every quotient of the model to keep SignificandBits significant bits.
\* ------------------------------------------------------------------------
RECURSIVE Pow2(_)
Pow2(k) == IF k = 0 THEN 1 ELSE 2 * Pow2(k - 1)

Unit == Pow2(SignificandBits + 3)

\* the binary exponent of num/den: the least e with num/den < 2^(SignificandBits + e)
RECURSIVE Exponent(_, _, _)
Exponent(num, den, e) ==
  IF num < Pow2(SignificandBits + e) * den THEN e ELSE Exponent(num, den, e + 1)

\* a/b rounded to the nearest integer, ties to even
RoundHalfEven(a, b) ==
  LET f == a \div b
      r == a % b
  IN IF 2 * r < b THEN f
     ELSE IF 2 * r > b THEN f + 1
     ELSE IF f % 2 = 0 THEN f ELSE f + 1

\* num/den rounded to the nearest number
RoundToNearest(num, den) ==
  LET e == Exponent(num, den, 0)
  IN RoundHalfEven(num, den * Pow2(e)) * Pow2(e)

\* x + y
Plus(x, y) == RoundToNearest(x + y, 1)

\* x / k
Divide(x, k) == RoundToNearest(x, k)

\* the value undefined (the numbers of the model are not negative)
undefined == 0 - 1

\* src[idx], idx counted from 0: undefined outside the array
At(src, idx) == IF idx >= 0 /\ idx < Len(src) THEN src[idx + 1] ELSE undefined

\* Math.floor((j * m) / targetDim)
BlockStart(j, m, targetDim) == (j * m) \div targetDim

\* Math.floor(((j + 1) * m) / targetDim) || (start + 1)
BlockEnd(j, m, targetDim) ==
  LET end == ((j + 1) * m) \div targetDim
  IN IF end # 0 THEN end ELSE BlockStart(j, m, targetDim) + 1

RECURSIVE BlockSum_inclusive(_, _, _, _)
BlockSum_inclusive(src, i, end, acc) ==
  IF i <= end /\ i < Len(src)
    THEN BlockSum_inclusive(src, i + 1, end, Plus(acc, src[i + 1]))
    ELSE acc

\* let s = 0; for (let i = start; i < end && i < m; i++) s += src[i]
RECURSIVE BlockSum(_, _, _, _)
BlockSum(src, i, end, acc) ==
  IF i < end /\ i < Len(src)
    THEN BlockSum(src, i + 1, end, Plus(acc, src[i + 1]))
    ELSE acc

\* lines 27-33: out[j] of the branch m > targetDim
BlockMean(src, j, targetDim) ==
  LET start == BlockStart(j, Len(src), targetDim)
      end == BlockEnd(j, Len(src), targetDim)
  IN Divide(BlockSum(src, start, end, 0), MathMax(1, end - start))

\* lines 35-38: out[j] of the branch m <= targetDim
Nearest(src, j, targetDim) ==
  At(src, MathMin(Len(src) - 1, (j * Len(src)) \div targetDim))

projectToDim_alias(src, targetDim) ==
  IF Len(src) = targetDim THEN [fresh |-> FALSE, value |-> src]
  ELSE IF Len(src) > targetDim
    THEN [fresh |-> TRUE,
          value |-> [j \in 1..targetDim |-> BlockMean(src, j - 1, targetDim)]]
    ELSE [fresh |-> TRUE,
          value |-> [j \in 1..targetDim |-> Nearest(src, j - 1, targetDim)]]

projectToDim_shortLoop(src, targetDim) ==
  IF Len(src) = targetDim THEN [fresh |-> TRUE, value |-> src]
  ELSE IF Len(src) > targetDim
    THEN [fresh |-> TRUE,
          value |-> [j \in 1..targetDim |-> BlockMean(src, j - 1, targetDim)]]
    ELSE [fresh |-> TRUE,
          value |-> [j \in 1..Len(src) |-> Nearest(src, j - 1, targetDim)]]

\* projectToDim(src, targetDim): the array returned, and whether it is a new
\* array (src.slice(), new Array(targetDim)) or src itself
projectToDim(src, targetDim) ==
  IF Len(src) = targetDim THEN [fresh |-> TRUE, value |-> src]
  ELSE IF Len(src) > targetDim
    THEN [fresh |-> TRUE,
          value |-> [j \in 1..targetDim |-> BlockMean(src, j - 1, targetDim)]]
    ELSE [fresh |-> TRUE,
          value |-> [j \in 1..targetDim |-> Nearest(src, j - 1, targetDim)]]

createDB_projectToDim_sample(src, targetDim) ==
  IF Len(src) = targetDim THEN [fresh |-> TRUE, value |-> src]
  ELSE [fresh |-> TRUE,
        value |-> [j \in 1..targetDim |->
                     At(src, MathMin(Len(src) - 1,
                                     ((j - 1) * Len(src)) \div targetDim))]]

\* projectToDim of createDB.tsx, lines 42-61, the copy createEmbeddings
\* calls: start, end and s are the locals of the loop of lines 47-53
createDB_projectToDim(src, targetDim) ==
  LET m == Len(src)
      start(j) == (j * m) \div targetDim
      end(j) == IF ((j + 1) * m) \div targetDim # 0
                  THEN ((j + 1) * m) \div targetDim ELSE start(j) + 1
      RECURSIVE s(_, _, _)
      s(i, e, acc) == IF i < e /\ i < m THEN s(i + 1, e, Plus(acc, src[i + 1]))
                      ELSE acc
  IN IF m = targetDim THEN [fresh |-> TRUE, value |-> src]
     ELSE IF m > targetDim
       THEN [fresh |-> TRUE,
             value |-> [j \in 1..targetDim |->
                          Divide(s(start(j - 1), end(j - 1), 0),
                                 MathMax(1, end(j - 1) - start(j - 1)))]]
       ELSE [fresh |-> TRUE,
             value |-> [j \in 1..targetDim |->
                          At(src, MathMin(m - 1, start(j - 1)))]]

\* A caller holds an array v, calls projectToDim(v, n), may change an
\* element of the array it got, and calls projectToDim(v, n) again.
\* v is the array now, orig what it held at the first call, out the array
\* returned when that is a new one (it is v itself otherwise); first and
\* second are what the two calls returned.  stored is what the projection
\* of createDB.tsx returns for the array and width of the first call.
pj_call ==
  /\ pj.pc = "call"
  /\ LET res == projectToDim(pj.v, pj.n)
     IN pj' = [pj EXCEPT !.pc = "returned", !.fresh = res.fresh,
                         !.out = IF res.fresh THEN res.value ELSE <<>>,
                         !.first = res.value,
                         !.stored = createDB_projectToDim(pj.v, pj.n).value]
  /\ UNCHANGED <<env, proc, now, cachedDeployedPrompt, cachedSystemMessage,
                 pc, trace, loc, log, sub, cfg, inj, ch, store>>

\* result[j] = x, by the caller
pj_write ==
  /\ pj.pc = "returned"
  /\ \E j \in 1..Len(pj.first) :
       pj' = [pj EXCEPT !.pc = "written",
                        !.out = IF pj.fresh THEN [@ EXCEPT ![j] = ((MaxValue + 1) * Unit)] ELSE @,
                        !.v = IF pj.fresh THEN @ ELSE [@ EXCEPT ![j] = ((MaxValue + 1) * Unit)]]
  /\ UNCHANGED <<env, proc, now, cachedDeployedPrompt, cachedSystemMessage,
                 pc, trace, loc, log, sub, cfg, inj, ch, store>>

pj_again ==
  /\ pj.pc \in {"returned", "written"}
  /\ pj' = [pj EXCEPT !.pc = "done", !.second = projectToDim(pj.v, pj.n).value]
  /\ UNCHANGED <<env, proc, now, cachedDeployedPrompt, cachedSystemMessage,
                 pc, trace, loc, log, sub, cfg, inj, ch, store>>

Numbers == { c * Unit : c \in 0..MaxValue }

RECURSIVE VectorsUpTo(_)
VectorsUpTo(n) ==
  IF n = 0 THEN { <<>> }
  ELSE VectorsUpTo(n - 1)
         \cup { Append(v, x) : v \in VectorsUpTo(n - 1), x \in Numbers }

InitProject ==
  /\ env = [ADALINE_API_KEY |-> TRUE, OAI_API_KEY |-> TRUE]
  /\ InitProgram
  /\ inj = Off.inj
  /\ ch = Off.ch
  /\ pj \in { [Off.pj EXCEPT !.pc = "call", !.v = v, !.orig = v, !.n = n] :
              v \in VectorsUpTo(MaxLen), n \in 0..MaxDim }
  /\ store = Off.store

NextProject == pj_call \/ pj_write \/ pj_again

SpecProject == InitProject /\ [][NextProject]_vars

\* ------------------------------------------------------------------------
\* Ingestion and retrieval against the vector store (createDB.tsx,
\* retrieve.tsx): the records upserted for the chunks of a document, the
\* query vector, and what parseMatchMetadata recovers from the record ids.
\* PINECONE_DIMENSION is process.env.PINECONE_DIMENSION, or the default
\* when it is unset, in createDB.tsx (line 23) and the default in
\* retrieve.tsx (line 15); the default, 1024, is DefaultDimension here.
\* ------------------------------------------------------------------------
\* `${path.basename(pdfPath, path.extname(pdfPath))}-chunk-${i}`
RecordId(file, i) ==
  Basename(file) \o <<"-chunk-", <<"0", "1", "2", "3">>[i + 1]>>

\* what the embedding provider may give for one input: no embedding, or
\* an array of any width
ProviderAnswers ==
  { Null(<<>>) } \cup { Some([j \in 1..w |-> Unit]) : w \in 0..MaxLen }

\* createEmbeddings, lines 131-144: the vector pushed for each input
createEmbeddings(answers, dimension) ==
  [i \in DOMAIN answers |->
     IF answers[i].isNull THEN [j \in 1..dimension |-> 0]
     ELSE IF Len(answers[i].value) # dimension
       THEN createDB_projectToDim(answers[i].value, dimension).value
       ELSE answers[i].value]

\* createQueryEmbedding, lines 68-75 and 124: finalEmb, or nothing when
\* the provider gave no embedding (the function throws)
createQueryEmbedding(answer) ==
  IF answer.isNull THEN Null(<<>>)
  ELSE Some(IF Len(answer.value) # DefaultDimension
              THEN projectToDim(answer.value, DefaultDimension).value
              ELSE answer.value)

\* addDocumentToDB, lines 193-213: the chunks are embedded and one record
\* per chunk is upserted; a rejected provider call is caught (line 217)
\* and nothing is upserted
store_ingest ==
  /\ store.pc = "call"
  /\ \E answers \in [1..store.count -> ProviderAnswers], o \in {"ok", "throw"} :
       LET dimension == IF store.dimension.isNull THEN DefaultDimension
                        ELSE store.dimension.value
           values == createEmbeddings(answers, dimension)
       IN store' = [store EXCEPT
            !.pc = "ingested",
            !.records = IF o = "throw" THEN <<>>
                        ELSE [i \in 1..store.count |->
                                [id |-> RecordId(store.file, i - 1),
                                 values |-> values[i],
                                 metadata |->
                                   [NoMetadata EXCEPT
                                      !.source = Some(store.file),
                                      !.chunkIndex = Some(i - 1)]]]]
  /\ UNCHANGED <<env, proc, now, cachedDeployedPrompt, cachedSystemMessage,
                 pc, trace, loc, log, sub, cfg, inj, ch, pj>>

\* retrieveTopK, lines 139-148: the vector handed to index.query
store_query ==
  /\ store.pc = "call"
  /\ \E answer \in ProviderAnswers :
       store' = [store EXCEPT !.pc = "queried",
                              !.query = createQueryEmbedding(answer)]
  /\ UNCHANGED <<env, proc, now, cachedDeployedPrompt, cachedSystemMessage,
                 pc, trace, loc, log, sub, cfg, inj, ch, pj>>

\* the store answers with the records as matches, each with its id and
\* with the metadata members the store holds for it (all, some or none of
\* those written at ingestion), and parseMatchMetadata is applied to each
store_resolve ==
  /\ store.pc = "ingested"
  /\ \E kept \in SUBSET {"source", "chunkIndex"} :
       LET matches ==
             [i \in DOMAIN store.records |->
                [id |-> store.records[i].id, hasMetadata |-> kept # {},
                 metadata |->
                   [NoMetadata EXCEPT
                      !.source = IF "source" \in kept
                                   THEN store.records[i].metadata.source ELSE @,
                      !.chunkIndex = IF "chunkIndex" \in kept
                                       THEN store.records[i].metadata.chunkIndex
                                       ELSE @]]]
       IN store' = [store EXCEPT
            !.pc = "resolved",
            !.matches = matches,
            !.recovered =
               [i \in DOMAIN matches |->
                  parseMatchMetadata(
                    [listable |-> TRUE, names |-> store.names,
                     text |-> [f \in {} |-> <<>>]],
                    matches[i])]]
  /\ UNCHANGED <<env, proc, now, cachedDeployedPrompt, cachedSystemMessage,
                 pc, trace, loc, log, sub, cfg, inj, ch, pj>>

\* a data folder that lists up to two files, in the order readdir gives
\* them; a document of one to MaxRecords chunks; an index dimension that
\* is configured or left to the default
InitStore ==
  /\ env = [ADALINE_API_KEY |-> TRUE, OAI_API_KEY |-> TRUE]
  /\ InitProgram
  /\ inj = Off.inj
  /\ ch = Off.ch
  /\ pj = Off.pj
  /\ LET files == { <<"guide", ".pdf">>, <<"guide", "-v2", ".pdf">>,
                    <<"guide", "-chunk-", "1", ".pdf">>, <<"run", ".pdf">> }
         listings == { <<>> } \cup { <<f>> : f \in files }
                       \cup { <<p[1], p[2]>> :
                                p \in { q \in files \X files : q[1] # q[2] } }
     IN store \in { [Off.store EXCEPT !.pc = "call", !.names = d, !.file = f,
                                      !.count = c, !.dimension = n] :
                    d \in listings, f \in files, c \in 1..MaxRecords,
                    n \in { Null(0) } \cup { Some(k) : k \in 1..MaxDim } }

NextStore == store_ingest \/ store_query \/ store_resolve

SpecStore == InitStore /\ [][NextStore]_vars

\* ------------------------------------------------------------------------
\* Properties
\* ------------------------------------------------------------------------
InLog(r, e) == \E i \in DOMAIN log[r] : log[r][i] = e

LastLog(r) == IF log[r] = <<>> THEN "" ELSE log[r][Len(log[r])]

HasSpan(r, name) == \E i \in DOMAIN trace[r].spans : trace[r].spans[i].name = name

\* every span called a is stored before every span called b
Before(r, a, b) ==
  \A i, j \in DOMAIN trace[r].spans :
    (trace[r].spans[i].name = a /\ trace[r].spans[j].name = b) => i < j

\* C1: in every run of main, failed or not, submitTrace is called exactly
\* once (never twice, and once by the time the run is over), and the trace
\* holds at every later moment exactly the spans it held when submitTrace
\* was called: no span is appended once submission has begun.
C1_SubmitOnceAfterLastSpan ==
  \A r \in Runs :
    /\ sub[r].calls <= 1
    /\ (pc[r] = "done" => sub[r].calls = 1)
    /\ (pc[r] \in {"idle", "getFullPrompt", "fetching", "cacheSystemMessage",
                   "getUserQuery", "getCoachTemplate", "assemble", "embedding",
                   "querying", "resolve", "augment", "callLLM", "generating",
                   "catch", "submit"} => sub[r].calls = 0)
    /\ (sub[r].calls >= 1 => Len(trace[r].spans) = sub[r].spansAtCall)

\* a run whose generation call failed, after six earlier spans, is over
\* and its trace was submitted once, with all seven spans
C1_Witness ==
  /\ pc["r1"] = "done"
  /\ loc["r1"].result = "failed"
  /\ LastLog("r1") = "completeChat failed"
  /\ sub["r1"].calls = 1
  /\ sub["r1"].spansAtCall = 7
  /\ trace["r1"].spans[7].name = "llm_call"

StageFailures == {"getEmbeddings failed", "query failed", "completeChat failed"}

StageFailed(r) == \E e \in StageFailures : InLog(r, e)

\* C2: when the embedding call, the vector-store query or the generation
\* call of a run fails, the failure is the last thing the run asks of any
\* service (no later stage runs), the error reaches main (the run is in or
\* past its catch block and reports failure), and the trace is submitted
\* with status error: error when submitTrace is called, failure on the wire,
\* and the POST is sent.
C2_StageFailureReachesMain ==
  \A r \in Runs :
    StageFailed(r) =>
      /\ LastLog(r) \in StageFailures
      /\ pc[r] \in {"catch", "submit", "posting", "done"}
      /\ (pc[r] \in {"submit", "posting", "done"} =>
            /\ loc[r].result = "failed"
            /\ trace[r].status = "error")
      /\ (pc[r] \in {"posting", "done"} =>
            /\ sub[r].calls = 1
            /\ sub[r].posts = 1
            /\ sub[r].statusAtCall = "error"
            /\ sub[r].wireStatus = "failure")

\* the vector-store query failed and the trace went out as a failure
C2_Witness ==
  /\ pc["r1"] = "done"
  /\ LastLog("r1") = "query failed"
  /\ ~InLog("r1", "completeChat")
  /\ sub["r1"].posts = 1
  /\ sub["r1"].wireStatus = "failure"

\* C3: in every trace the fetch_deployed_payload span is stored before the
\* embedding_create and pinecone_query spans, and these two are stored before
\* the prompt_augmentation span, whatever the timestamps they carry.
C3_SpanOrder ==
  \A r \in Runs :
    /\ Before(r, "fetch_deployed_payload", "embedding_create")
    /\ Before(r, "fetch_deployed_payload", "pinecone_query")
    /\ Before(r, "embedding_create", "prompt_augmentation")
    /\ Before(r, "pinecone_query", "prompt_augmentation")

\* all four spans are present and carry the same timestamps (the clock did
\* not advance between them), so only the order of storage tells them apart
C3_Witness ==
  /\ HasSpan("r1", "fetch_deployed_payload")
  /\ HasSpan("r1", "embedding_create")
  /\ HasSpan("r1", "pinecone_query")
  /\ HasSpan("r1", "prompt_augmentation")
  /\ \A i \in DOMAIN trace["r1"].spans :
       /\ trace["r1"].spans[i].startedAt = 2
       /\ trace["r1"].spans[i].endedAt = 2

SpanStatuses(r) == [i \in DOMAIN trace[r].spans |-> trace[r].spans[i].status]

\* C4: once submitTrace(trace) has finished, trace.status is error whenever
\* at least one span stored in the trace has status error.
C4_ErrorSpanMakesTraceError ==
  ( /\ pc[LibRun] = "done"
    /\ \E i \in DOMAIN SpanStatuses(LibRun) : SpanStatuses(LibRun)[i] = "error" )
    => trace[LibRun].status = "error"

\* spans [success, error, success], submitted: the trace is an error
C4_Witness ==
  /\ pc[LibRun] = "done"
  /\ SpanStatuses(LibRun) = <<"success", "error", "success">>
  /\ trace[LibRun].status = "error"

\* C5: submitTrace sends at most one POST per call, and whatever the POST
\* does (answered ok, answered with a non-success status, rejected)
\* submitTrace returns normally, so that the run ends with the result its
\* stages produced: the response when no stage failed, failure otherwise.
C5_SubmitIsBestEffort ==
  \A r \in Runs :
    /\ sub[r].posts <= sub[r].calls
    /\ (pc[r] = "done" =>
          /\ sub[r].returned = "normally"
          /\ loc[r].result = IF LastLog(r) \in {"completeChat", ""}
                               THEN "response" ELSE "failed")

\* the POST was rejected after a run that produced a response
C5_Witness ==
  /\ pc["r1"] = "done"
  /\ sub["r1"].response = "throw"
  /\ sub["r1"].posts = 1
  /\ sub["r1"].returned = "normally"
  /\ loc["r1"].result = "response"

ClaimedAccessors ==
  {"getFullPrompt", "getCoachTemplate", "getUserQuery", "getDeploymentInfo",
   "getLatestDeployedPrompt"}

\* C6: for every sequence of calls of the configuration accessors against a
\* remote that answers successfully, the payload is fetched exactly once (on
\* the first call); later calls fetch nothing.
C6_FetchedExactlyOnce ==
  ( /\ cfg.calls # <<>>
    /\ ~cfg.failed
    /\ \A i \in DOMAIN cfg.calls : cfg.calls[i] \in ClaimedAccessors )
    => cfg.fetches = 1

\* run r has issued its own GET and received the payload
Fetched(r) ==
  /\ InLog(r, "GET")
  /\ ~InLog(r, "GET failed")
  /\ pc[r] # "fetching"

\* run r has issued its own GET and has written both caches
Cached(r) == Fetched(r) /\ pc[r] # "cacheSystemMessage"

GotTemplates(r) == loc[r].coachTemplate # EmptyStr

\* C7: when both invocations saw the caches empty, each fetched, and the
\* remote gave both the same payload P, then from the first write on the
\* payload cache holds P; once either has written the system-message cache
\* it holds the system message of P, neither more nor less; and the two
\* invocations obtain the same system and user templates.
C7_DuplicateFetchIsBenign ==
  ( /\ Fetched("r1")
    /\ Fetched("r2")
    /\ loc["r1"].deployed = loc["r2"].deployed )
    => /\ cachedDeployedPrompt = Some(loc["r1"].deployed)
       /\ ((Cached("r1") \/ Cached("r2")) =>
             cachedSystemMessage = Some(extractSystemMessage(loc["r1"].deployed)))
       /\ ((Cached("r1") /\ Cached("r2")) => ~cachedSystemMessage.isNull)
       /\ ((GotTemplates("r1") /\ GotTemplates("r2")) =>
             /\ loc["r1"].coachTemplate = loc["r2"].coachTemplate
             /\ loc["r1"].userQuery = loc["r2"].userQuery
             /\ loc["r1"].coachTemplate = extractSystemMessage(loc["r1"].deployed))

\* both fetched payload B, both wrote the caches, both got their templates
C7_Witness ==
  /\ Cached("r1")
  /\ Cached("r2")
  /\ loc["r1"].deployed = PayloadB
  /\ loc["r2"].deployed = PayloadB
  /\ GotTemplates("r1")
  /\ GotTemplates("r2")
  /\ Len(log["r1"]) >= 1
  /\ Len(log["r2"]) >= 1

Work == {"getEmbeddings", "query", "completeChat"}

\* C8: a run whose configuration fetch failed, and any run of a process
\* whose credential is missing, sends no embedding request, no vector-store
\* query and no generation request.
C8_ConfigFailureStopsRun ==
  \A r \in Runs :
    (~env.ADALINE_API_KEY \/ InLog(r, "GET failed"))
      => \A w \in Work : ~InLog(r, w)

\* the configuration fetch failed and the run is over without any request
C8_Witness ==
  /\ pc["r1"] = "done"
  /\ log["r1"] = <<"GET", "GET failed">>
  /\ loc["r1"].result = "failed"

\* C9: a configuration without a system message (or without a text block in
\* it) gives the empty template and template retrieval does not fail.
C9_MissingRoleIsNotAnError ==
  \A r \in Runs :
    (cachedSystemMessage = Some(EmptyStr)) => ~InLog(r, "template failed")

\* C10: injectVariables leaves the template exactly as it is when none of
\* the tokens of the template is a key of the supplied values (with no
\* values supplied in particular): placeholders without a value, and all
\* other text, are kept verbatim.
C10_UnsuppliedPlaceholdersKept ==
  ( /\ inj.done
    /\ \A i \in DOMAIN inj.template : inj.template[i] \notin DOMAIN inj.variables )
    => inj.out = inj.template

\* splitIntoChunks was called with 0 <= overlap < chunkSize
ValidChunkArgs == ch.pc # "off" /\ ch.overlap < ch.chunkSize

IsPrefix(p, t) == Len(p) <= Len(t) /\ SubSeq(t, 1, Len(p)) = p

\* the last o characters of chunk c, surrounding whitespace aside
TrailingOverlap(c, o) == Trim(SubSeq(c, MathMax(0, Len(c) - o) + 1, Len(c)))

\* C11: whenever an iteration of the sentence loop emits the buffer because
\* the next sentence does not fit, and goes on with a new buffer, the new
\* buffer begins with the trailing overlap characters of the chunk just
\* emitted.
C11_NextBufferSeededWithOverlap ==
  [][ ( /\ ValidChunkArgs
        /\ ch.pc = "loop"
        /\ ch'.pc = "loop"
        /\ Len(ch'.chunks) = Len(ch.chunks) + 1 )
      => IsPrefix(TrailingOverlap(ch'.chunks[Len(ch'.chunks)], ch.overlap),
                  ch'.current) ]_vars

ExampleChunks == << <<"A", ".">>, <<"B", ".">>, <<"C", ".">> >>

Strip(t) == SelectSeq(t, LAMBDA c : ~IsWhitespace(c))

\* chunk c without its first d characters
Drop(c, d) == SubSeq(c, d + 1, Len(c))

\* x is what text t holds after its first p characters
MatchesAt(t, p, x) == p + Len(x) <= Len(t) /\ SubSeq(t, p + 1, p + Len(x)) = x

\* How much of t the chunks 1..j reconstruct: the lengths p such that the
\* first p characters of t are the first chunk followed by every later chunk
\* less an overlap of at most o of its leading characters.
RECURSIVE Reconstructed(_, _, _, _)
Reconstructed(t, chunks, j, o) ==
  IF j = 0 THEN {0}
  ELSE LET c == chunks[j]
           overlaps == IF j = 1 THEN {0} ELSE 0..MathMin(o, Len(c))
       IN { pd[1] + Len(Strip(Drop(c, pd[2]))) :
              pd \in { qd \in Reconstructed(t, chunks, j - 1, o) \X overlaps :
                         MatchesAt(t, qd[1], Strip(Drop(c, qd[2]))) } }

\* C13: with 0 <= overlap < chunkSize, the chunks returned, each after the
\* first less its overlap with what precedes it (at most overlap leading
\* characters), concatenated in order, are the text, whitespace aside: no
\* character is dropped, none is repeated outside an overlap.
C13_ChunksReconstructText ==
  (ch.pc = "done" /\ ValidChunkArgs) =>
    Len(Strip(ch.text)) \in
      Reconstructed(Strip(ch.text), ch.chunks, Len(ch.chunks), ch.overlap)

\* "A AB." cut into windows of 2 that advance by 1
C13_Witness ==
  /\ ch.pc = "done"
  /\ ch.text = <<"A", " ", "A", "B", ".">>
  /\ ch.chunkSize = 2
  /\ ch.overlap = 1
  /\ Len(ch.chunks) = 5

\* C14: every call of splitIntoChunks returns, whatever the text, the chunk
\* size and the overlap (a call with overlap >= chunkSize being rejected or
\* its overlap clamped).
C14_ChunkerTerminates == <>(ch.pc = "done")

\* projectToDim has returned (once at least)
Projected == pj.pc \in {"returned", "written", "done"}

\* C15: projectToDim(v, n) returns an array of exactly n elements, for every
\* array v and every width n, and a second call with the same v and n
\* returns what the first call returned.
C15_ExactWidthAndDeterministic ==
  /\ (Projected => Len(pj.first) = pj.n)
  /\ (pj.pc = "done" => Len(pj.second) = pj.n /\ pj.second = pj.first)

\* three elements were projected to two, twice, the caller having changed
\* the first result in between
C15_Witness ==
  /\ pj.pc = "done"
  /\ Len(pj.orig) = 3
  /\ pj.n = 2
  /\ pj.out # pj.first
  /\ Len(pj.second) = 2

\* C16: when v has n elements, projectToDim(v, n) returns an array equal to
\* v element by element, and v is afterwards what it was, also once the
\* caller has changed an element of the array returned.
C16_EqualWidthIsFreshCopy ==
  (Projected /\ Len(pj.orig) = pj.n) => (pj.first = pj.orig /\ pj.v = pj.orig)

\* a copy of a two-element array was returned and then changed
C16_Witness ==
  /\ pj.pc = "written"
  /\ Len(pj.orig) = 2
  /\ pj.n = 2
  /\ pj.out # pj.orig
  /\ pj.v = pj.orig

\* floor(j * m / n)
Boundary(j, m, n) == (j * m) \div n

\* the blocks [floor(j*m/n), floor((j+1)*m/n)), j in 0..n-1, have one
\* element at least and every index 0..m-1 is in exactly one of them
BlocksPartition(m, n) ==
  /\ \A j \in 0..(n - 1) : Boundary(j, m, n) < Boundary(j + 1, m, n)
  /\ \A i \in 0..(m - 1) :
       Cardinality({ j \in 0..(n - 1) :
                       Boundary(j, m, n) <= i /\ i < Boundary(j + 1, m, n) }) = 1

\* block j of v
BlockOf(v, j, n) ==
  SubSeq(v, Boundary(j, Len(v), n) + 1, Boundary(j + 1, Len(v), n))

RECURSIVE ExactSum(_)
ExactSum(b) == IF b = <<>> THEN 0 ELSE b[1] + ExactSum(Tail(b))

\* the elements of b added one after the other, each addition rounded
RECURSIVE RoundedSum(_, _)
RoundedSum(b, acc) ==
  IF b = <<>> THEN acc ELSE RoundedSum(Tail(b), Plus(acc, b[1]))

AllEqual(v, c) == \A i \in DOMAIN v : v[i] = c

\* c, 2c, ..., kc are numbers: adding c up k times rounds nothing
SumsExact(c, k) == \A i \in 1..k : Plus((i - 1) * c, c) = i * c

\* C17 (as claimed): when v has m > n elements, the blocks
\* [floor(j*m/n), floor((j+1)*m/n)) partition the indices of v, output
\* element j is the arithmetic mean of block j, and a source whose elements
\* all equal c gives an output whose elements all equal c.
C17_BlockMeans ==
  (Projected /\ Len(pj.orig) > pj.n) =>
    /\ BlocksPartition(Len(pj.orig), pj.n)
    /\ \A j \in 1..pj.n :
         pj.first[j] * Len(BlockOf(pj.orig, j - 1, pj.n))
           = ExactSum(BlockOf(pj.orig, j - 1, pj.n))
    /\ \A c \in Numbers : AllEqual(pj.orig, c) => AllEqual(pj.first, c)

\* C17 (amended): when v has m > n >= 1 elements, the blocks partition the
\* indices of v, output element j is the sum of block j, added from left to
\* right with every addition rounded, divided by the length of the block and
\* rounded; a source whose elements all equal c gives an output whose
\* elements all equal c when c, 2c, ..., mc are added up without rounding.
C17_BlockMeansRounded ==
  (Projected /\ Len(pj.orig) > pj.n /\ pj.n >= 1) =>
    /\ BlocksPartition(Len(pj.orig), pj.n)
    /\ \A j \in 1..pj.n :
         pj.first[j] = Divide(RoundedSum(BlockOf(pj.orig, j - 1, pj.n), 0),
                              Len(BlockOf(pj.orig, j - 1, pj.n)))
    /\ \A c \in Numbers :
         (AllEqual(pj.orig, c) /\ SumsExact(c, Len(pj.orig)))
           => AllEqual(pj.first, c)

\* [1, 2, 5] projected to two elements: [1, 3.5]
C17_Witness ==
  /\ pj.pc = "returned"
  /\ pj.orig = <<Unit, 2 * Unit, 5 * Unit>>
  /\ pj.n = 2
  /\ pj.first = <<Unit, 7 * (Unit \div 2)>>

\* C18: when v has m < n elements, output element j is the element of v at
\* index min(m-1, floor(j*m/n)), which is an index of v, for every j in
\* 0..n-1 (so every output element is an element of v, in the order of v).
C18_NearestIsElementOfSource ==
  (Projected /\ Len(pj.orig) < pj.n) =>
    \A j \in 0..(pj.n - 1) :
      LET idx == MathMin(Len(pj.orig) - 1, Boundary(j, Len(pj.orig), pj.n))
      IN /\ idx >= 0
         /\ idx < Len(pj.orig)
         /\ pj.first[j + 1] = pj.orig[idx + 1]

\* retrieveTopK of run r did not return: its caller did not go on (no match
\* is being resolved, no augmentation was recorded) and the error is in or
\* past the catch block of main
RetrievalThrew(r) ==
  /\ pc[r] \in {"catch", "submit", "posting", "done"}
  /\ ~HasSpan(r, "prompt_augmentation")
  /\ (pc[r] # "catch" => loc[r].result = "failed")

\* C19: when the embedding call of retrieveTopK fails, no vector-store query
\* is issued and the error reaches the caller; when the vector-store query
\* fails, the error reaches the caller; in both cases retrieveTopK returns no
\* list of matches.
C19_RetrievalFailuresPropagate ==
  \A r \in Runs :
    /\ (InLog(r, "getEmbeddings failed") => (~InLog(r, "query") /\ RetrievalThrew(r)))
    /\ (InLog(r, "query failed") => RetrievalThrew(r))

\* the embedding call was answered without embeddings: the span says error,
\* no query was sent, and the run is over as a failure
C19_Witness ==
  /\ pc["r1"] = "done"
  /\ InLog("r1", "getEmbeddings")
  /\ LastLog("r1") = "getEmbeddings failed"
  /\ HasSpan("r1", "embedding_create")
  /\ ~HasSpan("r1", "pinecone_query")
  /\ loc["r1"].result = "failed"

\* the text of guide.mdx once its front matter and comment are removed and
\* its whitespace collapsed
GuideDocument == <<"Warm", " ", "up", " ", "first", ".">>

\* matches whose file and chunk can be located and read
Resolvable == {MatchWithMetadata, MatchWithIdOnly}

\* the chunk a resolvable match refers to
ReferencedChunk(m) ==
  LET k == IF m = MatchWithMetadata THEN 0 ELSE 1
  IN SubSeq(GuideDocument, k * ReadChunkSize + 1, (k + 1) * ReadChunkSize)

RECURSIVE ChunksOfResolvable(_, _)
ChunksOfResolvable(ms, i) ==
  IF i > Len(ms) THEN <<>>
  ELSE (IF ms[i] \in Resolvable THEN <<ReferencedChunk(ms[i])>> ELSE <<>>)
         \o ChunksOfResolvable(ms, i + 1)

LastSpan(r) == trace[r].spans[Len(trace[r].spans)]

\* C20: once the matches of a run are resolved, the snippets are the chunks
\* of the matches that can be located and read, in the order of the matches,
\* the other matches giving nothing; and no run fails between a successful
\* query and the end of the resolution.
C20_UnresolvedMatchesAreSkipped ==
  \A r \in Runs :
    /\ pc[r] = "augment" =>
         loc[r].snippets = ChunksOfResolvable(loc[r].matches, 1)
    /\ (pc[r] = "catch" /\ trace[r].spans # <<>>
          /\ LastSpan(r).name = "pinecone_query") =>
         LastSpan(r).status = "error"

C20_Witness ==
  /\ pc["r1"] = "augment"
  /\ loc["r1"].matches = <<MatchOfMissingFile, MatchWithIdOnly>>
  /\ loc["r1"].snippets = <<ReferencedChunk(MatchWithIdOnly)>>

\* the data folder holding one document, book.pdf, whose extracted text is t
FolderWith(t) ==
  [listable |-> TRUE, names |-> << <<"book", ".pdf">> >>,
   text |-> [f \in { <<"book", ".pdf">> } |-> t]]

\* C21: for a document that was ingested (its text is what
\* extractTextFromPDF gives, so it is trimmed, and the chunker's arguments
\* are valid), readChunkContent(fileName, i) is chunk i of the chunker, for
\* every chunk index i.
C21_ReadBackIsIngestedChunk ==
  (ch.pc = "done" /\ ValidChunkArgs /\ Trim(ch.text) = ch.text) =>
    \A i \in DOMAIN ch.chunks :
      readChunkContent(FolderWith(ch.text), <<"book", ".pdf">>, i - 1,
                       ReadChunkSize) = ch.chunks[i]

SetOf(q) == { q[i] : i \in DOMAIN q }

\* C22: a record id built at ingestion for file b.ext and chunk i, given to
\* parseMatchMetadata without metadata, gives back chunk index i and, when
\* the data folder lists the file, that file.
C22_RecordIdsRoundTrip ==
  store.pc = "resolved" =>
    \A i \in DOMAIN store.recovered :
      ~store.matches[i].hasMetadata =>
        /\ store.recovered[i].chunkNum = Some(i - 1)
        /\ store.file \in SetOf(store.names) =>
             store.recovered[i].fileName = Some(store.file)

\* C24: every vector handed to the store, the values of each upserted
\* record and the query vector, is as wide as the configured index
\* dimension, whatever the provider answered.
C24_VectorsHaveIndexWidth ==
  LET dimension == IF store.dimension.isNull THEN DefaultDimension
                   ELSE store.dimension.value
  IN /\ \A i \in DOMAIN store.records :
          Len(store.records[i].values) = dimension
     /\ ~store.query.isNull => Len(store.query.value) = dimension

\* the submission in flight or answered is of the trace as it is stored now
Transmitted(r) == env.ADALINE_API_KEY /\ pc[r] \in {"posting", "done"}

\* endedAt as the claim says it is sent: startedAt + 1 for an interval that
\* is unset (0) or not strictly increasing, endedAt otherwise
SentEnd(x) == IF x.endedAt <= x.startedAt THEN x.startedAt + 1 ELSE x.endedAt

\* C25: in the transmitted payload the trace and every span have
\* endedAt > startedAt; an interval with endedAt <= startedAt, or unset, is
\* sent as startedAt + 1 and a strictly increasing one is sent unchanged.
C25_IntervalsNormalized ==
  \A r \in Runs :
    Transmitted(r) =>
      /\ sub[r].wireTrace.startedAt = trace[r].startedAt
      /\ sub[r].wireTrace.endedAt = SentEnd(trace[r])
      /\ sub[r].wireTrace.endedAt > sub[r].wireTrace.startedAt
      /\ Len(sub[r].wire) = Len(trace[r].spans)
      /\ \A i \in DOMAIN sub[r].wire :
           /\ sub[r].wire[i].startedAt = trace[r].spans[i].startedAt
           /\ sub[r].wire[i].endedAt = SentEnd(trace[r].spans[i])
           /\ sub[r].wire[i].endedAt > sub[r].wire[i].startedAt

C25_Witness ==
  /\ Transmitted(LibRun)
  /\ trace[LibRun].endedAt > trace[LibRun].startedAt
  /\ \E i, j, k \in DOMAIN trace[LibRun].spans :
       /\ trace[LibRun].spans[i].endedAt = 0
       /\ trace[LibRun].spans[j].endedAt = trace[LibRun].spans[j].startedAt
       /\ trace[LibRun].spans[k].endedAt > trace[LibRun].spans[k].startedAt
       /\ sub[LibRun].wire[i].endedAt = trace[LibRun].spans[i].startedAt + 1
       /\ sub[LibRun].wire[j].endedAt = trace[LibRun].spans[j].startedAt + 1
       /\ sub[LibRun].wire[k].endedAt = trace[LibRun].spans[k].endedAt

C27_SpansBelongToTheirTrace ==
  \A r \in Runs :
    \A i \in DOMAIN trace[r].spans :
      /\ trace[r].spans[i].traceReferenceId = trace[r].referenceId
      /\ trace[r].spans[i].sessionId =
           IF trace[r].spans[i].name = "session_span"
             THEN <<"session", "own">> ELSE trace[r].sessionId

C27_Witness ==
  \E i, j \in DOMAIN trace[LibRun].spans :
    /\ i < j
    /\ trace[LibRun].spans[i].sessionId = <<"session", "own">>
    /\ trace[LibRun].spans[j].sessionId = trace[LibRun].sessionId
    /\ trace[LibRun].spans[j].traceReferenceId = <<"trace", LibRun>>

\* the spans of run r that name span p as their parent and record the
\* embedding or the vector-store query
RetrievalChildren(r, p) ==
  { i \in DOMAIN trace[r].spans :
      /\ trace[r].spans[i].parentReferenceId = p.referenceId
      /\ trace[r].spans[i].name \in {"embedding_create", "pinecone_query"} }

\* C28: the assemble_augmented_prompt span starts no later and ends no
\* earlier than the embedding span and the retrieval span that name it as
\* their parent.
C28_ParentCoversChildren ==
  \A r \in Runs :
    \A k \in DOMAIN trace[r].spans :
      trace[r].spans[k].name = "assemble_augmented_prompt" =>
        \A i \in RetrievalChildren(r, trace[r].spans[k]) :
          /\ trace[r].spans[k].startedAt <= trace[r].spans[i].startedAt
          /\ trace[r].spans[k].endedAt >= trace[r].spans[i].endedAt

C28_Witness ==
  \E r \in Runs :
    \E k \in DOMAIN trace[r].spans :
      /\ trace[r].spans[k].name = "assemble_augmented_prompt"
      /\ { trace[r].spans[i].name : i \in RetrievalChildren(r, trace[r].spans[k]) }
           = {"embedding_create", "pinecone_query"}
      /\ \E i \in RetrievalChildren(r, trace[r].spans[k]) :
           /\ trace[r].spans[k].startedAt < trace[r].spans[i].startedAt
           /\ trace[r].spans[i].endedAt < trace[r].spans[k].endedAt

\* C29: in every trace of a pipeline run the spans are stored in completion
\* order: a span earlier in trace.spans has endedAt <= that of a later one.
C29_SpansInCompletionOrder ==
  \A r \in Runs :
    \A i, j \in DOMAIN trace[r].spans :
      i < j => trace[r].spans[i].endedAt <= trace[r].spans[j].endedAt

C29_Witness ==
  \E r \in Runs :
    \E i, j \in DOMAIN trace[r].spans :
      /\ i < j
      /\ trace[r].spans[j].name = "assemble_augmented_prompt"
      /\ trace[r].spans[i].parentReferenceId = trace[r].spans[j].referenceId
      /\ trace[r].spans[j].startedAt < trace[r].spans[i].startedAt
      /\ trace[r].spans[i].endedAt < trace[r].spans[j].endedAt
      /\ Len(trace[r].spans) > j

\* the span a stage records, by the line the stage logs when it fails
StageSpan ==
  [e \in {"GET failed", "getEmbeddings failed", "query failed",
          "completeChat failed"} |->
     CASE e = "GET failed" -> "fetch_deployed_payload"
       [] e = "getEmbeddings failed" -> "embedding_create"
       [] e = "query failed" -> "pinecone_query"
       [] OTHER -> "llm_call"]

\* C30: when the configuration fetch, the embedding call, the vector-store
\* query or the generation call of a run has failed, the submitted trace
\* holds a span of that stage whose status is error (failure on the wire).
C30_StageFailuresShowInSpans ==
  \A r \in Runs :
    Transmitted(r) =>
      \A k \in DOMAIN log[r] :
        log[r][k] \in DOMAIN StageSpan =>
          \E i \in DOMAIN sub[r].wire :
            /\ sub[r].wire[i].name = StageSpan[log[r][k]]
            /\ sub[r].wire[i].status = "failure"

\* C31: when a trace is submitted, every span that has a parentReferenceId
\* names the referenceId of a span of the same trace, on successful runs
\* and on runs in which a stage failed.
C31_NoDanglingParent ==
  \A r \in Runs :
    Transmitted(r) =>
      \A i \in DOMAIN trace[r].spans :
        trace[r].spans[i].parentReferenceId # NoRef =>
          \E j \in DOMAIN trace[r].spans :
            trace[r].spans[j].referenceId = trace[r].spans[i].parentReferenceId

\* C32: when the metadata of a match supplies a source file name,
\* parseMatchMetadata returns that name, and when it supplies a chunk index
\* it returns that index, whatever the record id and the data folder say.
C32_MetadataIsPreferred ==
  store.pc = "resolved" =>
    \A i \in DOMAIN store.matches :
      /\ ~store.matches[i].metadata.source.isNull =>
           store.recovered[i].fileName = store.matches[i].metadata.source
      /\ ~store.matches[i].metadata.chunkIndex.isNull =>
           store.recovered[i].chunkNum = store.matches[i].metadata.chunkIndex

\* C33: a call of addSpan appends exactly one span at the end of
\* trace.spans, leaves the spans already stored and their order as they
\* were, and leaves the trace's name, status, startedAt, endedAt (0 as long
\* as the trace has not been finalized), referenceId, sessionId, attributes
\* and tags unchanged.  In the library harness the steps that change the
\* number of spans are the calls of addSpan.
C33_AddSpanOnlyAppends ==
  [][\A r \in Runs :
       Len(trace'[r].spans) # Len(trace[r].spans) =>
         /\ Len(trace'[r].spans) = Len(trace[r].spans) + 1
         /\ SubSeq(trace'[r].spans, 1, Len(trace[r].spans)) = trace[r].spans
         /\ [trace'[r] EXCEPT !.spans = <<>>] = [trace[r] EXCEPT !.spans = <<>>]
         /\ sub[r].posts = 0 => trace'[r].endedAt = 0]_vars

C33_Witness ==
  /\ Len(trace[LibRun].spans) = 3
  /\ trace[LibRun].spans[1].name = "session_span"
  /\ trace[LibRun].spans[2].name = "test_llm"
  /\ trace[LibRun].spans[3].status = "error"
  /\ trace[LibRun].endedAt = 0
  /\ trace[LibRun].status = "success"
  /\ trace[LibRun].tags = <<"running-coach", "rag", "pipeline">>

\* C34: a call of submitTrace changes only the trace's endedAt and status;
\* every span stored in trace.spans, its content.output included, is after
\* the call what it was before.
C34_SubmitLeavesSpansAlone ==
  [][\A r \in Runs :
       (pc[r] \in {"submit", "lib"} /\ pc'[r] \in {"posting", "done"}) =>
         /\ trace'[r].spans = trace[r].spans
         /\ [trace'[r] EXCEPT !.endedAt = 0, !.status = "success"]
              = [trace[r] EXCEPT !.endedAt = 0, !.status = "success"]]_vars

\* C35: after any sequence of configuration operations, whenever both
\* caches are populated the cached system message is the system message of
\* the cached deployment payload.
C35_CachesAgree ==
  (~cachedDeployedPrompt.isNull /\ ~cachedSystemMessage.isNull) =>
    cachedSystemMessage.value = extractSystemMessage(cachedDeployedPrompt.value)

\* C36: once the status of a trace is error no step (addSpan, submitTrace)
\* returns it to success, and a trace whose status is error is transmitted
\* with status failure, also when each of its spans has status success.
C36_ErrorIsSticky ==
  [][\A r \in Runs :
       /\ trace[r].status = "error" => trace'[r].status = "error"
       /\ (Transmitted(r)' /\ trace[r].status = "error") =>
            sub'[r].wireStatus = "failure"]_vars

C36_Witness ==
  /\ Transmitted(LibRun)
  /\ trace[LibRun].status = "error"
  /\ Len(trace[LibRun].spans) >= 2
  /\ \A i \in DOMAIN trace[LibRun].spans :
       trace[LibRun].spans[i].status = "success"
  /\ sub[LibRun].wireStatus = "failure"
  /\ sub[LibRun].calls = 2

\* C37: the projection of createDB.tsx and the projection of retrieve.tsx
\* return the same array for every vector and target width.
C37_ProjectionsAgree ==
  pj.pc # "call" => pj.stored = pj.first

C37_Witness ==
  /\ pj.pc = "returned"
  /\ Len(pj.orig) = 3
  /\ pj.n = 2
  /\ pj.stored = pj.first
  /\ pj.first[1] # pj.first[2]
  /\ \A i \in 1..3 : pj.first[2] # pj.orig[i]

\* C38 as stated: after a call whose configuration fetch failed, the
\* payload cache and the system-message cache are both unpopulated.
C38_FailedFetchLeavesCachesEmpty ==
  cfg.fetchFailed =>
    (cachedDeployedPrompt.isNull /\ cachedSystemMessage.isNull)

\* C38, amended: a call whose configuration fetch failed writes neither
\* cache, both hold after it what they held before; and when both are
\* unpopulated after it, the next call issues a new fetch.
C38_FailedFetchWritesNothing ==
  [][Len(cfg'.calls) > Len(cfg.calls) =>
       /\ cfg'.fetchFailed =>
            /\ cachedDeployedPrompt' = cachedDeployedPrompt
            /\ cachedSystemMessage' = cachedSystemMessage
       /\ ( /\ cfg.fetchFailed
            /\ cachedDeployedPrompt.isNull
            /\ cachedSystemMessage.isNull ) =>
            cfg'.fetches = cfg.fetches + 1]_vars

\* a fetch failed with empty caches, the next call fetched again and
\* succeeded, and a third call's fetch failed with the payload cached
C38_Witness ==
  /\ Len(cfg.calls) = 3
  /\ cfg.fetches = 3
  /\ cfg.fetchFailed
  /\ ~cachedDeployedPrompt.isNull
  /\ cachedSystemMessage.isNull

\* the names of the spans of run r that went out, in the order sent
SentNames(r) == [i \in DOMAIN sub[r].wire |-> sub[r].wire[i].name]

\* the number of configuration fetches run r issued
FetchesOf(r) == Cardinality({i \in DOMAIN log[r] : log[r][i] = "GET"})

\* no external call of run r failed (a missing embedding credential counts
\* as the embedding call failing)
NoCallFailed(r) ==
  \A e \in {"GET failed", "getEmbeddings failed", "query failed",
            "completeChat failed"} : ~InLog(r, e)

SevenSpans ==
  <<"fetch_deployed_payload", "prompt_retrieval", "embedding_create",
    "pinecone_query", "prompt_augmentation", "assemble_augmented_prompt",
    "llm_call">>

\* C39: a run that started with empty caches, in which no external call
\* failed, and whose trace was sent, sent exactly the seven spans
\* fetch_deployed_payload, prompt_retrieval, embedding_create,
\* pinecone_query, prompt_augmentation, assemble_augmented_prompt, llm_call
\* in this order, and fetched the configuration exactly once.
C39_SevenSpansOneFetch ==
  \A r \in Runs :
    (sub[r].posts = 1 /\ NoCallFailed(r)) =>
      /\ SentNames(r) = SevenSpans
      /\ FetchesOf(r) = 1

\* C39 for the runs in which the deployed configuration has a non-empty
\* system message
C39_SevenSpansWithSystemMessage ==
  \A r \in Runs :
    (sub[r].posts = 1 /\ NoCallFailed(r) /\ ~InLog(r, "template failed")) =>
      /\ SentNames(r) = SevenSpans
      /\ FetchesOf(r) = 1

====
